---- MODULE Spec2Model ----
(***************************************************************************)
(* Notebooker: the OpenRouter dispatch of src/openrouter_backend.py.       *)
(* OpenRouterBackend keeps an ordered list of models and of API keys, one  *)
(* cursor into each, and one shared requests.Session.  generate_text walks *)
(* models x keys until one request succeeds and otherwise answers from a   *)
(* keyword-driven template; analyze_image walks the keys only.             *)
(*                                                                         *)
(* Text (prompts, model output, canned answers) is a sequence of           *)
(* characters, so that strip(), lower() and the substring test `in` are    *)
(* computed as Python computes them.  A character is the string of that    *)
(* one character; a character that cannot be written in a string of a      *)
(* module (the backquote, U+0000, the surrogates, and the code points      *)
(* above U+00FF that the lexer rejects) is the string "U+" followed by its *)
(* code point in at least four upper-case hexadecimal digits, "U+212A" for *)
(* the Kelvin sign.                                                        *)
(***************************************************************************)
EXTENDS Integers, Sequences, FiniteSets, TLC

(* Bounds of the model: the largest configuration explored. *)
MaxModels == 2

MaxKeys == 2

(***************************************************************************)
(* Canned texts, copied character by character from the source.            *)
(***************************************************************************)
SECTIONS_COUNT_RESPONSE ==
  <<"I"," ","c","a","n"," ","s","e","e"," ","y","o","u"," ","h","a","v","e"," ","0"," ","s","e",
    "c","t","i","o","n","s"," ","i","n"," ","y","o","u","r"," ","p","r","o","j","e","c","t"," ",
    "r","i","g","h","t"," ","n","o","w","."," ","Y","o","u"," ","c","a","n"," ","c","r","e","a",
    "t","e"," ","y","o","u","r"," ","f","i","r","s","t"," ","s","e","c","t","i","o","n"," ","b",
    "y"," ","c","l","i","c","k","i","n","g"," ","t","h","e"," ","'","+"," ","C","r","e","a","t",
    "e"," ","F","i","r","s","t"," ","S","e","c","t","i","o","n","'"," ","b","u","t","t","o","n",
    " ","o","n"," ","t","h","e"," ","r","i","g","h","t",","," ","o","r"," ","a","s","k"," ","m",
    "e"," ","t","o"," ","h","e","l","p"," ","y","o","u"," ","p","l","a","n"," ","w","h","a","t",
    " ","s","e","c","t","i","o","n","s"," ","y","o","u"," ","n","e","e","d",".">>

CREATE_SECTIONS_RESPONSE ==
  <<"I","'","l","l"," ","c","r","e","a","t","e"," ","t","h","e"," ","s","t","a","n","d","a","r",
    "d"," ","V","E","X"," ","e","n","g","i","n","e","e","r","i","n","g"," ","n","o","t","e","b",
    "o","o","k"," ","s","e","c","t","i","o","n","s"," ","f","o","r"," ","y","o","u"," ","n","o",
    "w","!","\n","\n","S","t","a","n","d","a","r","d"," ","s","e","c","t","i","o","n","s",":",
    "\n","-"," ","P","r","o","j","e","c","t"," ","o","v","e","r","v","i","e","w"," ","&"," ",
    "g","o","a","l","s","\n","-"," ","D","e","s","i","g","n"," ","p","r","o","c","e","s","s",
    " ","&"," ","b","r","a","i","n","s","t","o","r","m","i","n","g","\n","-"," ","T","e","c",
    "h","n","i","c","a","l"," ","s","p","e","c","i","f","i","c","a","t","i","o","n","s","\n",
    "-"," ","C","A","D"," ","m","o","d","e","l","s"," ","&"," ","d","r","a","w","i","n","g","s",
    "\n","-"," ","P","r","o","g","r","a","m","m","i","n","g"," ","&"," ","c","o","d","e","\n",
    "-"," ","T","e","s","t","i","n","g"," ","&"," ","i","t","e","r","a","t","i","o","n","s",
    "\n","-"," ","C","o","m","p","e","t","i","t","i","o","n"," ","r","e","s","u","l","t","s",
    "\n","-"," ","F","u","t","u","r","e"," ","i","m","p","r","o","v","e","m","e","n","t","s",
    "\n","\n","C","r","e","a","t","i","n","g"," ","y","o","u","r"," ","s","e","c","t","i","o",
    "n","s",".",".",".">>

VEX_TEAM_RESPONSE ==
  <<"P","e","r","f","e","c","t","!"," ","L","e","t","'","s"," ","c","r","e","a","t","e"," ","y",
    "o","u","r"," ","V","E","X"," ","t","e","a","m"," ","e","n","g","i","n","e","e","r","i","n",
    "g"," ","n","o","t","e","b","o","o","k",".","\n","\n","Q","u","i","c","k"," ","q","u","e",
    "s","t","i","o","n","s",":","\n","1","."," ","W","h","a","t"," ","V","E","X"," ","g","a",
    "m","e","/","c","h","a","l","l","e","n","g","e","?","\n","2","."," ","T","e","a","m"," ",
    "s","i","z","e","?","\n","3","."," ","M","a","i","n"," ","r","o","b","o","t"," ","g","o",
    "a","l","s","?","\n","4","."," ","T","i","m","e","l","i","n","e","?","\n","\n","S","t","a",
    "n","d","a","r","d"," ","s","e","c","t","i","o","n","s",":","\n","-"," ","T","e","a","m",
    " ","o","v","e","r","v","i","e","w"," ","&"," ","g","o","a","l","s","\n","-"," ","D","e",
    "s","i","g","n"," ","p","r","o","c","e","s","s"," ","&"," ","b","r","a","i","n","s","t","o",
    "r","m","i","n","g","\n","-"," ","T","e","c","h","n","i","c","a","l"," ","s","p","e","c",
    "s"," ","&"," ","C","A","D","\n","-"," ","P","r","o","g","r","a","m","m","i","n","g"," ",
    "&"," ","c","o","d","e","\n","-"," ","T","e","s","t","i","n","g"," ","&"," ","r","e","s",
    "u","l","t","s","\n","-"," ","C","o","m","p","e","t","i","t","i","o","n"," ","a","n","a",
    "l","y","s","i","s","\n","\n","W","a","n","t"," ","m","e"," ","t","o"," ","c","r","e","a",
    "t","e"," ","a","l","l"," ","s","e","c","t","i","o","n","s"," ","n","o","w","?">>

VEX_RESPONSE ==
  <<"G","r","e","a","t","!"," ","L","e","t","'","s"," ","b","u","i","l","d"," ","y","o","u","r",
    " ","V","E","X"," ","e","n","g","i","n","e","e","r","i","n","g"," ","n","o","t","e","b","o",
    "o","k",".","\n","\n","Q","u","i","c","k"," ","q","u","e","s","t","i","o","n","s",":","\n",
    "1","."," ","W","h","a","t"," ","V","E","X"," ","p","r","o","j","e","c","t"," ","t","y","p",
    "e","?","\n","2","."," ","M","a","i","n"," ","g","o","a","l","s","?","\n","3","."," ","T",
    "i","m","e","l","i","n","e","?","\n","\n","S","t","a","n","d","a","r","d"," ","s","e","c",
    "t","i","o","n","s",":","\n","-"," ","P","r","o","j","e","c","t"," ","o","v","e","r","v",
    "i","e","w"," ","&"," ","g","o","a","l","s","\n","-"," ","D","e","s","i","g","n"," ","p",
    "r","o","c","e","s","s"," ","&"," ","b","r","a","i","n","s","t","o","r","m","i","n","g",
    "\n","-"," ","T","e","c","h","n","i","c","a","l"," ","s","p","e","c","i","f","i","c","a",
    "t","i","o","n","s","\n","-"," ","C","A","D"," ","m","o","d","e","l","s"," ","&"," ","d",
    "r","a","w","i","n","g","s","\n","-"," ","P","r","o","g","r","a","m","m","i","n","g"," ",
    "&"," ","c","o","d","e","\n","-"," ","T","e","s","t","i","n","g"," ","&"," ","i","t","e",
    "r","a","t","i","o","n","s","\n","-"," ","C","o","m","p","e","t","i","t","i","o","n"," ",
    "r","e","s","u","l","t","s","\n","-"," ","F","u","t","u","r","e"," ","i","m","p","r","o",
    "v","e","m","e","n","t","s","\n","\n","W","a","n","t"," ","m","e"," ","t","o"," ","c","r",
    "e","a","t","e"," ","a","l","l"," ","s","e","c","t","i","o","n","s"," ","n","o","w","?">>

GENERIC_RESPONSE ==
  <<"I"," ","u","n","d","e","r","s","t","a","n","d"," ","y","o","u"," ","n","e","e","d"," ","h",
    "e","l","p"," ","w","i","t","h"," ","y","o","u","r"," ","e","n","g","i","n","e","e","r","i",
    "n","g"," ","n","o","t","e","b","o","o","k","."," ","P","l","e","a","s","e"," ","p","r","o",
    "v","i","d","e"," ","m","o","r","e"," ","s","p","e","c","i","f","i","c"," ","i","n","s","t",
    "r","u","c","t","i","o","n","s",".">>

_draft_section_template ==
  <<"\n","#"," ","S","e","c","t","i","o","n"," ","D","r","a","f","t","\n","\n","#","#"," ","O",
    "v","e","r","v","i","e","w","\n","T","h","i","s"," ","s","e","c","t","i","o","n"," ","c",
    "o","v","e","r","s"," ","t","h","e"," ","k","e","y"," ","a","s","p","e","c","t","s"," ","o",
    "f"," ","t","h","e"," ","t","o","p","i","c","."," ","T","h","e"," ","i","m","p","l","e","m",
    "e","n","t","a","t","i","o","n"," ","f","o","l","l","o","w","s"," ","s","t","a","n","d","a",
    "r","d"," ","e","n","g","i","n","e","e","r","i","n","g"," ","p","r","a","c","t","i","c","e",
    "s"," ","a","n","d"," ","i","n","c","l","u","d","e","s"," ","p","r","o","p","e","r"," ","d",
    "o","c","u","m","e","n","t","a","t","i","o","n",".","\n","\n","#","#"," ","T","e","c","h",
    "n","i","c","a","l"," ","D","e","t","a","i","l","s","\n","-"," ","*","*","S","p","e","c",
    "i","f","i","c","a","t","i","o","n","s","*","*",":"," ","[","A","d","d"," ","t","e","c","h",
    "n","i","c","a","l"," ","s","p","e","c","i","f","i","c","a","t","i","o","n","s","]","\n",
    "-"," ","*","*","R","e","q","u","i","r","e","m","e","n","t","s","*","*",":"," ","[","L","i",
    "s","t"," ","r","e","q","u","i","r","e","m","e","n","t","s","]","\n","-"," ","*","*","C",
    "o","n","s","t","r","a","i","n","t","s","*","*",":"," ","[","I","d","e","n","t","i","f","y",
    " ","c","o","n","s","t","r","a","i","n","t","s","]","\n","\n","#","#"," ","I","m","p","l",
    "e","m","e","n","t","a","t","i","o","n","\n","T","h","e"," ","i","m","p","l","e","m","e",
    "n","t","a","t","i","o","n"," ","a","p","p","r","o","a","c","h"," ","i","n","c","l","u","d",
    "e","s",":","\n","1","."," ","D","e","s","i","g","n"," ","p","h","a","s","e","\n","2",".",
    " ","D","e","v","e","l","o","p","m","e","n","t"," ","p","h","a","s","e","\n","3","."," ",
    "T","e","s","t","i","n","g"," ","p","h","a","s","e","\n","4","."," ","I","n","t","e","g",
    "r","a","t","i","o","n"," ","p","h","a","s","e","\n","\n","#","#"," ","T","e","s","t","i",
    "n","g","\n","T","e","s","t","i","n","g"," ","p","r","o","c","e","d","u","r","e","s"," ",
    "i","n","c","l","u","d","e",":","\n","-"," ","U","n","i","t"," ","t","e","s","t","i","n",
    "g","\n","-"," ","I","n","t","e","g","r","a","t","i","o","n"," ","t","e","s","t","i","n",
    "g","\n","-"," ","S","y","s","t","e","m"," ","t","e","s","t","i","n","g","\n","-"," ","P",
    "e","r","f","o","r","m","a","n","c","e"," ","t","e","s","t","i","n","g","\n","\n","#","#",
    " ","R","e","s","u","l","t","s","\n","R","e","s","u","l","t","s"," ","s","h","o","w"," ",
    "[","d","e","s","c","r","i","b","e"," ","r","e","s","u","l","t","s"," ","a","n","d"," ","a",
    "n","a","l","y","s","i","s","]","\n","\n","#","#"," ","F","u","t","u","r","e"," ","I","m",
    "p","r","o","v","e","m","e","n","t","s","\n","P","o","t","e","n","t","i","a","l"," ","i",
    "m","p","r","o","v","e","m","e","n","t","s"," ","i","n","c","l","u","d","e",":","\n","-",
    " ","[","I","m","p","r","o","v","e","m","e","n","t"," ","1","]","\n","-"," ","[","I","m",
    "p","r","o","v","e","m","e","n","t"," ","2","]","\n","-"," ","[","I","m","p","r","o","v",
    "e","m","e","n","t"," ","3","]","\n","\n","[","i","m","a","g","e"," ","1","]"," ","-"," ",
    "S","y","s","t","e","m"," ","a","r","c","h","i","t","e","c","t","u","r","e"," ","d","i","a",
    "g","r","a","m","\n","[","i","m","a","g","e"," ","2","]"," ","-"," ","T","e","s","t"," ",
    "r","e","s","u","l","t","s"," ","v","i","s","u","a","l","i","z","a","t","i","o","n","\n",
    "\n","[","T","A","G",":"," ","r","o","b","o","t","i","c","s",","," ","e","n","g","i","n",
    "e","e","r","i","n","g",","," ","d","o","c","u","m","e","n","t","a","t","i","o","n","]",
    "\n","[","C","O","M","M","E","N","T",":"," ","T","h","i","s"," ","i","s"," ","a"," ","t",
    "e","m","p","l","a","t","e"," ","d","r","a","f","t"," ","-"," ","p","l","e","a","s","e"," ",
    "c","u","s","t","o","m","i","z","e"," ","w","i","t","h"," ","s","p","e","c","i","f","i","c",
    " ","d","e","t","a","i","l","s","]","\n">>

_rewrite_content_template ==
  <<"\n","#"," ","I","m","p","r","o","v","e","d"," ","S","e","c","t","i","o","n","\n","\n","#",
    "#"," ","E","n","h","a","n","c","e","d"," ","O","v","e","r","v","i","e","w","\n","T","h",
    "i","s"," ","s","e","c","t","i","o","n"," ","h","a","s"," ","b","e","e","n"," ","i","m","p",
    "r","o","v","e","d"," ","f","o","r"," ","c","l","a","r","i","t","y"," ","a","n","d"," ","t",
    "e","c","h","n","i","c","a","l"," ","r","i","g","o","r","."," ","T","h","e"," ","c","o","n",
    "t","e","n","t"," ","n","o","w"," ","f","o","l","l","o","w","s"," ","b","e","s","t"," ","p",
    "r","a","c","t","i","c","e","s"," ","f","o","r"," ","e","n","g","i","n","e","e","r","i","n",
    "g"," ","d","o","c","u","m","e","n","t","a","t","i","o","n",".","\n","\n","#","#"," ","R",
    "e","f","i","n","e","d"," ","T","e","c","h","n","i","c","a","l"," ","D","e","t","a","i","l",
    "s","\n","T","h","e"," ","t","e","c","h","n","i","c","a","l"," ","s","p","e","c","i","f",
    "i","c","a","t","i","o","n","s"," ","h","a","v","e"," ","b","e","e","n"," ","c","l","a","r",
    "i","f","i","e","d"," ","a","n","d"," ","e","x","p","a","n","d","e","d"," ","t","o"," ","p",
    "r","o","v","i","d","e"," ","c","o","m","p","r","e","h","e","n","s","i","v","e"," ","c","o",
    "v","e","r","a","g","e"," ","o","f"," ","t","h","e"," ","t","o","p","i","c",".","\n","\n",
    "#","#"," ","S","t","r","u","c","t","u","r","e","d"," ","I","m","p","l","e","m","e","n","t",
    "a","t","i","o","n","\n","T","h","e"," ","i","m","p","l","e","m","e","n","t","a","t","i",
    "o","n"," ","s","e","c","t","i","o","n"," ","h","a","s"," ","b","e","e","n"," ","r","e","o",
    "r","g","a","n","i","z","e","d"," ","f","o","r"," ","b","e","t","t","e","r"," ","r","e","a",
    "d","a","b","i","l","i","t","y"," ","a","n","d"," ","i","n","c","l","u","d","e","s",":",
    "\n","-"," ","C","l","e","a","r"," ","s","t","e","p","-","b","y","-","s","t","e","p"," ",
    "p","r","o","c","e","d","u","r","e","s","\n","-"," ","D","e","t","a","i","l","e","d"," ",
    "e","x","p","l","a","n","a","t","i","o","n","s","\n","-"," ","P","r","o","p","e","r"," ",
    "f","o","r","m","a","t","t","i","n","g","\n","\n","#","#"," ","C","o","m","p","r","e","h",
    "e","n","s","i","v","e"," ","T","e","s","t","i","n","g","\n","T","e","s","t","i","n","g",
    " ","p","r","o","c","e","d","u","r","e","s"," ","h","a","v","e"," ","b","e","e","n"," ","e",
    "n","h","a","n","c","e","d"," ","w","i","t","h",":","\n","-"," ","D","e","t","a","i","l",
    "e","d"," ","t","e","s","t"," ","c","a","s","e","s","\n","-"," ","E","x","p","e","c","t",
    "e","d"," ","o","u","t","c","o","m","e","s","\n","-"," ","V","a","l","i","d","a","t","i",
    "o","n"," ","c","r","i","t","e","r","i","a","\n","\n","#","#"," ","D","e","t","a","i","l",
    "e","d"," ","R","e","s","u","l","t","s","\n","R","e","s","u","l","t","s"," ","a","n","a",
    "l","y","s","i","s"," ","h","a","s"," ","b","e","e","n"," ","i","m","p","r","o","v","e","d",
    " ","w","i","t","h",":","\n","-"," ","Q","u","a","n","t","i","t","a","t","i","v","e"," ",
    "d","a","t","a","\n","-"," ","V","i","s","u","a","l"," ","r","e","p","r","e","s","e","n",
    "t","a","t","i","o","n","s","\n","-"," ","S","t","a","t","i","s","t","i","c","a","l"," ",
    "a","n","a","l","y","s","i","s","\n","\n","#","#"," ","S","t","r","a","t","e","g","i","c",
    " ","F","u","t","u","r","e"," ","I","m","p","r","o","v","e","m","e","n","t","s","\n","F",
    "u","t","u","r","e"," ","i","m","p","r","o","v","e","m","e","n","t","s"," ","a","r","e"," ",
    "n","o","w"," ","p","r","i","o","r","i","t","i","z","e","d"," ","a","n","d"," ","i","n","c",
    "l","u","d","e",":","\n","-"," ","S","h","o","r","t","-","t","e","r","m"," ","g","o","a",
    "l","s","\n","-"," ","L","o","n","g","-","t","e","r","m"," ","o","b","j","e","c","t","i",
    "v","e","s","\n","-"," ","R","e","s","o","u","r","c","e"," ","r","e","q","u","i","r","e",
    "m","e","n","t","s","\n","\n","[","T","A","G",":"," ","i","m","p","r","o","v","e","d",",",
    " ","t","e","c","h","n","i","c","a","l",","," ","c","o","m","p","r","e","h","e","n","s","i",
    "v","e","]","\n","[","C","O","M","M","E","N","T",":"," ","C","o","n","t","e","n","t"," ",
    "h","a","s"," ","b","e","e","n"," ","r","e","w","r","i","t","t","e","n"," ","f","o","r"," ",
    "b","e","t","t","e","r"," ","c","l","a","r","i","t","y"," ","a","n","d"," ","t","e","c","h",
    "n","i","c","a","l"," ","a","c","c","u","r","a","c","y","]","\n">>

_generate_questions_template ==
  <<"\n","B","a","s","e","d"," ","o","n"," ","t","h","e"," ","a","n","a","l","y","s","i","s",
    ","," ","h","e","r","e"," ","a","r","e"," ","s","o","m","e"," ","t","a","r","g","e","t","e",
    "d"," ","q","u","e","s","t","i","o","n","s"," ","t","o"," ","h","e","l","p"," ","i","m","p",
    "r","o","v","e"," ","y","o","u","r"," ","e","n","g","i","n","e","e","r","i","n","g"," ","n",
    "o","t","e","b","o","o","k",":","\n","\n","1","."," ","*","*","T","e","c","h","n","i","c",
    "a","l"," ","S","p","e","c","i","f","i","c","a","t","i","o","n","s","*","*",":"," ","C","a",
    "n"," ","y","o","u"," ","p","r","o","v","i","d","e"," ","m","o","r","e"," ","d","e","t","a",
    "i","l","e","d"," ","t","e","c","h","n","i","c","a","l"," ","s","p","e","c","i","f","i","c",
    "a","t","i","o","n","s"," ","f","o","r"," ","t","h","e"," ","c","o","m","p","o","n","e","n",
    "t","s"," ","m","e","n","t","i","o","n","e","d","?","\n","\n","2","."," ","*","*","I","m",
    "p","l","e","m","e","n","t","a","t","i","o","n"," ","D","e","t","a","i","l","s","*","*",":",
    " ","W","h","a","t"," ","s","p","e","c","i","f","i","c"," ","c","h","a","l","l","e","n","g",
    "e","s"," ","d","i","d"," ","y","o","u"," ","e","n","c","o","u","n","t","e","r"," ","d","u",
    "r","i","n","g"," ","i","m","p","l","e","m","e","n","t","a","t","i","o","n","?","\n","\n",
    "3","."," ","*","*","T","e","s","t","i","n","g"," ","R","e","s","u","l","t","s","*","*",":",
    " ","D","o"," ","y","o","u"," ","h","a","v","e"," ","q","u","a","n","t","i","t","a","t","i",
    "v","e"," ","d","a","t","a"," ","f","r","o","m"," ","y","o","u","r"," ","t","e","s","t","i",
    "n","g"," ","p","r","o","c","e","d","u","r","e","s","?","\n","\n","4","."," ","*","*","P",
    "e","r","f","o","r","m","a","n","c","e"," ","M","e","t","r","i","c","s","*","*",":"," ","W",
    "h","a","t"," ","p","e","r","f","o","r","m","a","n","c","e"," ","m","e","t","r","i","c","s",
    " ","a","r","e"," ","m","o","s","t"," ","i","m","p","o","r","t","a","n","t"," ","f","o","r",
    " ","t","h","i","s"," ","s","y","s","t","e","m","?","\n","\n","5","."," ","*","*","F","u",
    "t","u","r","e"," ","D","e","v","e","l","o","p","m","e","n","t","*","*",":"," ","W","h","a",
    "t"," ","a","r","e"," ","y","o","u","r"," ","p","r","i","o","r","i","t","i","e","s"," ","f",
    "o","r"," ","f","u","t","u","r","e"," ","i","m","p","r","o","v","e","m","e","n","t","s","?",
    "\n","\n","6","."," ","*","*","D","o","c","u","m","e","n","t","a","t","i","o","n","*","*",
    ":"," ","A","r","e"," ","t","h","e","r","e"," ","a","n","y"," ","d","i","a","g","r","a","m",
    "s"," ","o","r"," ","i","m","a","g","e","s"," ","t","h","a","t"," ","w","o","u","l","d"," ",
    "h","e","l","p"," ","i","l","l","u","s","t","r","a","t","e"," ","t","h","e"," ","c","o","n",
    "c","e","p","t","s","?","\n","\n","P","l","e","a","s","e"," ","p","r","o","v","i","d","e",
    " ","a","n","s","w","e","r","s"," ","t","o"," ","t","h","e","s","e"," ","q","u","e","s","t",
    "i","o","n","s"," ","s","o"," ","I"," ","c","a","n"," ","h","e","l","p"," ","i","m","p","r",
    "o","v","e"," ","y","o","u","r"," ","d","o","c","u","m","e","n","t","a","t","i","o","n",".",
    "\n">>

_analyze_gaps_template ==
  <<"\n","#"," ","G","a","p"," ","A","n","a","l","y","s","i","s"," ","R","e","p","o","r","t",
    "\n","\n","#","#"," ","I","d","e","n","t","i","f","i","e","d"," ","G","a","p","s","\n","\n",
    "#","#","#"," ","M","i","s","s","i","n","g"," ","S","e","c","t","i","o","n","s","\n","-",
    " ","[","L","i","s","t"," ","m","i","s","s","i","n","g"," ","s","e","c","t","i","o","n","s",
    " ","t","h","a","t"," ","s","h","o","u","l","d"," ","b","e"," ","i","n","c","l","u","d","e",
    "d","]","\n","\n","#","#","#"," ","I","n","c","o","m","p","l","e","t","e"," ","C","o","n",
    "t","e","n","t","\n","-"," ","[","L","i","s","t"," ","s","e","c","t","i","o","n","s"," ",
    "t","h","a","t"," ","n","e","e","d"," ","m","o","r","e"," ","d","e","t","a","i","l","]",
    "\n","\n","#","#","#"," ","T","e","c","h","n","i","c","a","l"," ","G","a","p","s","\n","-",
    " ","[","L","i","s","t"," ","a","r","e","a","s"," ","l","a","c","k","i","n","g"," ","t","e",
    "c","h","n","i","c","a","l"," ","d","e","p","t","h","]","\n","\n","#","#","#"," ","D","o",
    "c","u","m","e","n","t","a","t","i","o","n"," ","I","s","s","u","e","s","\n","-"," ","[",
    "L","i","s","t"," ","f","o","r","m","a","t","t","i","n","g"," ","o","r"," ","c","l","a","r",
    "i","t","y"," ","i","s","s","u","e","s","]","\n","\n","#","#"," ","R","e","c","o","m","m",
    "e","n","d","a","t","i","o","n","s","\n","\n","#","#","#"," ","P","r","i","o","r","i","t",
    "y"," ","1"," ","(","H","i","g","h",")","\n","-"," ","[","M","o","s","t"," ","c","r","i",
    "t","i","c","a","l"," ","g","a","p","s"," ","t","o"," ","a","d","d","r","e","s","s","]",
    "\n","\n","#","#","#"," ","P","r","i","o","r","i","t","y"," ","2"," ","(","M","e","d","i",
    "u","m",")","\n","-"," ","[","I","m","p","o","r","t","a","n","t"," ","b","u","t"," ","l",
    "e","s","s"," ","c","r","i","t","i","c","a","l"," ","g","a","p","s","]","\n","\n","#","#",
    "#"," ","P","r","i","o","r","i","t","y"," ","3"," ","(","L","o","w",")","\n","-"," ","[",
    "N","i","c","e","-","t","o","-","h","a","v","e"," ","i","m","p","r","o","v","e","m","e","n",
    "t","s","]","\n","\n","#","#"," ","N","e","x","t"," ","S","t","e","p","s","\n","1","."," ",
    "A","d","d","r","e","s","s"," ","P","r","i","o","r","i","t","y"," ","1"," ","g","a","p","s",
    " ","f","i","r","s","t","\n","2","."," ","G","a","t","h","e","r"," ","a","d","d","i","t",
    "i","o","n","a","l"," ","i","n","f","o","r","m","a","t","i","o","n"," ","f","o","r"," ","i",
    "n","c","o","m","p","l","e","t","e"," ","s","e","c","t","i","o","n","s","\n","3","."," ",
    "R","e","v","i","e","w"," ","a","n","d"," ","i","m","p","r","o","v","e"," ","t","e","c","h",
    "n","i","c","a","l"," ","c","o","n","t","e","n","t","\n","4","."," ","A","d","d"," ","s",
    "u","p","p","o","r","t","i","n","g"," ","i","m","a","g","e","s"," ","a","n","d"," ","d","i",
    "a","g","r","a","m","s","\n","\n","T","h","i","s"," ","a","n","a","l","y","s","i","s"," ",
    "w","i","l","l"," ","h","e","l","p"," ","g","u","i","d","e"," ","t","h","e"," ","i","m","p",
    "r","o","v","e","m","e","n","t"," ","o","f"," ","y","o","u","r"," ","e","n","g","i","n","e",
    "e","r","i","n","g"," ","n","o","t","e","b","o","o","k",".","\n">>

CLIENT_NOT_AVAILABLE ==
  <<"O","p","e","n","R","o","u","t","e","r"," ","c","l","i","e","n","t"," ","n","o","t"," ","a",
    "v","a","i","l","a","b","l","e">>

IMAGE_ALL_KEYS_FAILED ==
  <<"I","m","a","g","e"," ","a","n","a","l","y","s","i","s"," ","f","a","i","l","e","d",":"," ",
    "A","l","l"," ","A","P","I"," ","k","e","y","s"," ","f","a","i","l","e","d">>

KW_how_many_sections == <<"h","o","w"," ","m","a","n","y"," ","s","e","c","t","i","o","n","s">>
KW_sections_do_i_have == <<"s","e","c","t","i","o","n","s"," ","d","o"," ","i"," ","h","a","v","e">>
KW_create_sections == <<"c","r","e","a","t","e"," ","s","e","c","t","i","o","n","s">>
KW_create_them == <<"c","r","e","a","t","e"," ","t","h","e","m">>
KW_make_sections == <<"m","a","k","e"," ","s","e","c","t","i","o","n","s">>
KW_vex == <<"v","e","x">>
KW_en == <<"e","n">>
KW_engineering_notebook == <<"e","n","g","i","n","e","e","r","i","n","g"," ","n","o","t","e","b","o","o","k">>
KW_team == <<"t","e","a","m">>
KW_draft == <<"d","r","a","f","t">>
KW_section == <<"s","e","c","t","i","o","n">>
KW_rewrite == <<"r","e","w","r","i","t","e">>
KW_improve == <<"i","m","p","r","o","v","e">>
KW_question == <<"q","u","e","s","t","i","o","n">>
KW_ask == <<"a","s","k">>
KW_analyze == <<"a","n","a","l","y","z","e">>
KW_gap == <<"g","a","p">>

PROMPT_HELLO == <<"H","e","l","l","o"," ","r","o","b","o","t">>
PROMPT_GAPS == <<"A","n","a","l","y","z","e"," ","g","a","p","s">>
CONTENT_HELLO == <<"h","e","l","l","o">>
CONTENT_PADDED == <<" ","h","i","\n">>
(* The characters c with c.lower() != c, in code point order, and their     *)
(* c.lower(), each a string.                                               *)
UPPER ==
  <<
   "A","B","C","D","E","F","G","H","I","J","K","L","M","N","O","P","Q","R","S","T","U","V","W","X",
   "Y","Z","À","Á","Â","Ã","Ä","Å","Æ","Ç","È","É","Ê","Ë","Ì","Í","Î","Ï","Ð","Ñ","Ò","Ó","Ô","Õ",
   "Ö","Ø","Ù","Ú","Û","Ü","Ý","Þ","U+0100","U+0102","U+0104","U+0106","U+0108","U+010A","U+010C",
   "U+010E","U+0110","U+0112","U+0114","U+0116","U+0118","U+011A","U+011C","U+011E","U+0120",
   "U+0122","U+0124","U+0126","U+0128","U+012A","U+012C","U+012E","U+0130","U+0132","U+0134",
   "U+0136","U+0139","U+013B","U+013D","U+013F","U+0141","U+0143","U+0145","U+0147","U+014A",
   "U+014C","U+014E","U+0150","U+0152","U+0154","U+0156","U+0158","U+015A","U+015C","U+015E",
   "U+0160","U+0162","U+0164","U+0166","U+0168","U+016A","U+016C","U+016E","U+0170","U+0172",
   "U+0174","U+0176","U+0178","U+0179","U+017B","U+017D","Ɓ","Ƃ","Ƅ","Ɔ","Ƈ","Ɖ","Ɗ","Ƌ","Ǝ","Ə",
   "Ɛ","Ƒ","Ɠ","Ɣ","Ɩ","Ɨ","Ƙ","Ɯ","Ɲ","Ɵ","Ơ","Ƣ","Ƥ","Ʀ","Ƨ","Ʃ","Ƭ","Ʈ","Ư","Ʊ","Ʋ","Ƴ","Ƶ","Ʒ",
   "Ƹ","Ƽ","Ǆ","ǅ","Ǉ","ǈ","Ǌ","ǋ","Ǎ","Ǐ","Ǒ","Ǔ","Ǖ","Ǘ","Ǚ","Ǜ","Ǟ","Ǡ","Ǣ","Ǥ","Ǧ","Ǩ","Ǫ","Ǭ",
   "Ǯ","Ǳ","ǲ","Ǵ","Ƕ","Ƿ","Ǹ","Ǻ","Ǽ","Ǿ","U+0200","U+0202","U+0204","U+0206","U+0208","U+020A",
   "U+020C","U+020E","U+0210","U+0212","U+0214","U+0216","U+0218","U+021A","U+021C","U+021E",
   "U+0220","U+0222","U+0224","U+0226","U+0228","U+022A","U+022C","U+022E","U+0230","U+0232",
   "U+023A","U+023B","U+023D","U+023E","U+0241","U+0243","U+0244","U+0245","U+0246","U+0248",
   "U+024A","U+024C","U+024E","U+0370","U+0372","U+0376","U+037F","Ά","Έ","Ή","Ί","Ό","Ύ","Ώ","Α",
   "Β","Γ","Δ","Ε","Ζ","Η","Θ","Ι","Κ","Λ","Μ","Ν","Ξ","Ο","Π","Ρ","Σ","Τ","Υ","Φ","Χ","Ψ","Ω","Ϊ",
   "Ϋ","Ϗ","Ϙ","Ϛ","Ϝ","Ϟ","Ϡ","Ϣ","Ϥ","Ϧ","Ϩ","Ϫ","Ϭ","Ϯ","ϴ","Ϸ","Ϲ","Ϻ","Ͻ","Ͼ","Ͽ","U+0400",
   "U+0401","U+0402","U+0403","U+0404","U+0405","U+0406","U+0407","U+0408","U+0409","U+040A",
   "U+040B","U+040C","U+040D","U+040E","U+040F","U+0410","U+0411","U+0412","U+0413","U+0414",
   "U+0415","U+0416","U+0417","U+0418","U+0419","U+041A","U+041B","U+041C","U+041D","U+041E",
   "U+041F","U+0420","U+0421","U+0422","U+0423","U+0424","U+0425","U+0426","U+0427","U+0428",
   "U+0429","U+042A","U+042B","U+042C","U+042D","U+042E","U+042F","U+0460","U+0462","U+0464",
   "U+0466","U+0468","U+046A","U+046C","U+046E","U+0470","U+0472","U+0474","U+0476","U+0478",
   "U+047A","U+047C","U+047E","Ҁ","Ҋ","Ҍ","Ҏ","Ґ","Ғ","Ҕ","Җ","Ҙ","Қ","Ҝ","Ҟ","Ҡ","Ң","Ҥ","Ҧ","Ҩ",
   "Ҫ","Ҭ","Ү","Ұ","Ҳ","Ҵ","Ҷ","Ҹ","Һ","Ҽ","Ҿ","Ӏ","Ӂ","Ӄ","Ӆ","Ӈ","Ӊ","Ӌ","Ӎ","Ӑ","Ӓ","Ӕ","Ӗ","Ә",
   "Ӛ","Ӝ","Ӟ","Ӡ","Ӣ","Ӥ","Ӧ","Ө","Ӫ","Ӭ","Ӯ","Ӱ","Ӳ","Ӵ","Ӷ","Ӹ","Ӻ","Ӽ","Ӿ","U+0500","U+0502",
   "U+0504","U+0506","U+0508","U+050A","U+050C","U+050E","U+0510","U+0512","U+0514","U+0516",
   "U+0518","U+051A","U+051C","U+051E","U+0520","U+0522","U+0524","U+0526","U+0528","U+052A",
   "U+052C","U+052E","U+0531","U+0532","U+0533","U+0534","U+0535","U+0536","U+0537","U+0538",
   "U+0539","U+053A","U+053B","U+053C","U+053D","U+053E","U+053F","U+0540","U+0541","U+0542",
   "U+0543","U+0544","U+0545","U+0546","U+0547","U+0548","U+0549","U+054A","U+054B","U+054C",
   "U+054D","U+054E","U+054F","U+0550","U+0551","U+0552","U+0553","U+0554","U+0555","U+0556","Ⴀ",
   "Ⴁ","Ⴂ","Ⴃ","Ⴄ","Ⴅ","Ⴆ","Ⴇ","Ⴈ","Ⴉ","Ⴊ","Ⴋ","Ⴌ","Ⴍ","Ⴎ","Ⴏ","Ⴐ","Ⴑ","Ⴒ","Ⴓ","Ⴔ","Ⴕ","Ⴖ","Ⴗ","Ⴘ",
   "Ⴙ","Ⴚ","Ⴛ","Ⴜ","Ⴝ","Ⴞ","Ⴟ","Ⴠ","Ⴡ","Ⴢ","Ⴣ","Ⴤ","Ⴥ","Ⴧ","Ⴭ","Ꭰ","Ꭱ","Ꭲ","Ꭳ","Ꭴ","Ꭵ","Ꭶ","Ꭷ","Ꭸ",
   "Ꭹ","Ꭺ","Ꭻ","Ꭼ","Ꭽ","Ꭾ","Ꭿ","Ꮀ","Ꮁ","Ꮂ","Ꮃ","Ꮄ","Ꮅ","Ꮆ","Ꮇ","Ꮈ","Ꮉ","Ꮊ","Ꮋ","Ꮌ","Ꮍ","Ꮎ","Ꮏ","Ꮐ",
   "Ꮑ","Ꮒ","Ꮓ","Ꮔ","Ꮕ","Ꮖ","Ꮗ","Ꮘ","Ꮙ","Ꮚ","Ꮛ","Ꮜ","Ꮝ","Ꮞ","Ꮟ","Ꮠ","Ꮡ","Ꮢ","Ꮣ","Ꮤ","Ꮥ","Ꮦ","Ꮧ","Ꮨ",
   "Ꮩ","Ꮪ","Ꮫ","Ꮬ","Ꮭ","Ꮮ","Ꮯ","Ꮰ","Ꮱ","Ꮲ","Ꮳ","Ꮴ","Ꮵ","Ꮶ","Ꮷ","Ꮸ","Ꮹ","Ꮺ","Ꮻ","Ꮼ","Ꮽ","Ꮾ","Ꮿ","Ᏸ",
   "Ᏹ","Ᏺ","Ᏻ","Ᏼ","Ᏽ","Ა","Ბ","Გ","Დ","Ე","Ვ","Ზ","Თ","Ი","Კ","Ლ","Მ","Ნ","Ო","Პ","Ჟ","Რ","Ს","Ტ",
   "Უ","Ფ","Ქ","Ღ","Ყ","Შ","Ჩ","Ც","Ძ","Წ","Ჭ","Ხ","Ჯ","Ჰ","Ჱ","Ჲ","Ჳ","Ჴ","Ჵ","Ჶ","Ჷ","Ჸ","Ჹ","Ჺ",
   "Ჽ","Ჾ","Ჿ","U+1E00","U+1E02","U+1E04","U+1E06","U+1E08","U+1E0A","U+1E0C","U+1E0E","U+1E10",
   "U+1E12","U+1E14","U+1E16","U+1E18","U+1E1A","U+1E1C","U+1E1E","U+1E20","U+1E22","U+1E24",
   "U+1E26","U+1E28","U+1E2A","U+1E2C","U+1E2E","U+1E30","U+1E32","U+1E34","U+1E36","U+1E38",
   "U+1E3A","U+1E3C","U+1E3E","U+1E40","U+1E42","U+1E44","U+1E46","U+1E48","U+1E4A","U+1E4C",
   "U+1E4E","U+1E50","U+1E52","U+1E54","U+1E56","U+1E58","U+1E5A","U+1E5C","U+1E5E","U+1E60",
   "U+1E62","U+1E64","U+1E66","U+1E68","U+1E6A","U+1E6C","U+1E6E","U+1E70","U+1E72","U+1E74",
   "U+1E76","U+1E78","U+1E7A","U+1E7C","U+1E7E","Ẁ","Ẃ","Ẅ","Ẇ","Ẉ","Ẋ","Ẍ","Ẏ","Ẑ","Ẓ","Ẕ","ẞ","Ạ",
   "Ả","Ấ","Ầ","Ẩ","Ẫ","Ậ","Ắ","Ằ","Ẳ","Ẵ","Ặ","Ẹ","Ẻ","Ẽ","Ế","Ề","Ể","Ễ","Ệ","Ỉ","Ị","Ọ","Ỏ","Ố",
   "Ồ","Ổ","Ỗ","Ộ","Ớ","Ờ","Ở","Ỡ","Ợ","Ụ","Ủ","Ứ","Ừ","Ử","Ữ","Ự","Ỳ","Ỵ","Ỷ","Ỹ","Ỻ","Ỽ","Ỿ",
   "U+1F08","U+1F09","U+1F0A","U+1F0B","U+1F0C","U+1F0D","U+1F0E","U+1F0F","U+1F18","U+1F19",
   "U+1F1A","U+1F1B","U+1F1C","U+1F1D","U+1F28","U+1F29","U+1F2A","U+1F2B","U+1F2C","U+1F2D",
   "U+1F2E","U+1F2F","U+1F38","U+1F39","U+1F3A","U+1F3B","U+1F3C","U+1F3D","U+1F3E","U+1F3F",
   "U+1F48","U+1F49","U+1F4A","U+1F4B","U+1F4C","U+1F4D","U+1F59","U+1F5B","U+1F5D","U+1F5F",
   "U+1F68","U+1F69","U+1F6A","U+1F6B","U+1F6C","U+1F6D","U+1F6E","U+1F6F","ᾈ","ᾉ","ᾊ","ᾋ","ᾌ","ᾍ",
   "ᾎ","ᾏ","ᾘ","ᾙ","ᾚ","ᾛ","ᾜ","ᾝ","ᾞ","ᾟ","ᾨ","ᾩ","ᾪ","ᾫ","ᾬ","ᾭ","ᾮ","ᾯ","Ᾰ","Ᾱ","Ὰ","Ά","ᾼ","Ὲ",
   "Έ","Ὴ","Ή","ῌ","Ῐ","Ῑ","Ὶ","Ί","Ῠ","Ῡ","Ὺ","Ύ","Ῥ","Ὸ","Ό","Ὼ","Ώ","ῼ","U+2126","U+212A",
   "U+212B","U+2132","U+2160","U+2161","U+2162","U+2163","U+2164","U+2165","U+2166","U+2167",
   "U+2168","U+2169","U+216A","U+216B","U+216C","U+216D","U+216E","U+216F","Ↄ","Ⓐ","Ⓑ","Ⓒ","Ⓓ","Ⓔ",
   "Ⓕ","Ⓖ","Ⓗ","Ⓘ","Ⓙ","Ⓚ","Ⓛ","Ⓜ","Ⓝ","Ⓞ","Ⓟ","Ⓠ","Ⓡ","Ⓢ","Ⓣ","Ⓤ","Ⓥ","Ⓦ","Ⓧ","Ⓨ","Ⓩ","U+2C00",
   "U+2C01","U+2C02","U+2C03","U+2C04","U+2C05","U+2C06","U+2C07","U+2C08","U+2C09","U+2C0A",
   "U+2C0B","U+2C0C","U+2C0D","U+2C0E","U+2C0F","U+2C10","U+2C11","U+2C12","U+2C13","U+2C14",
   "U+2C15","U+2C16","U+2C17","U+2C18","U+2C19","U+2C1A","U+2C1B","U+2C1C","U+2C1D","U+2C1E",
   "U+2C1F","U+2C20","U+2C21","U+2C22","U+2C23","U+2C24","U+2C25","U+2C26","U+2C27","U+2C28",
   "U+2C29","U+2C2A","U+2C2B","U+2C2C","U+2C2D","U+2C2E","U+2C2F","U+2C60","U+2C62","U+2C63",
   "U+2C64","U+2C67","U+2C69","U+2C6B","U+2C6D","U+2C6E","U+2C6F","U+2C70","U+2C72","U+2C75",
   "U+2C7E","U+2C7F","Ⲁ","Ⲃ","Ⲅ","Ⲇ","Ⲉ","Ⲋ","Ⲍ","Ⲏ","Ⲑ","Ⲓ","Ⲕ","Ⲗ","Ⲙ","Ⲛ","Ⲝ","Ⲟ","Ⲡ","Ⲣ","Ⲥ",
   "Ⲧ","Ⲩ","Ⲫ","Ⲭ","Ⲯ","Ⲱ","Ⲳ","Ⲵ","Ⲷ","Ⲹ","Ⲻ","Ⲽ","Ⲿ","Ⳁ","Ⳃ","Ⳅ","Ⳇ","Ⳉ","Ⳋ","Ⳍ","Ⳏ","Ⳑ","Ⳓ","Ⳕ",
   "Ⳗ","Ⳙ","Ⳛ","Ⳝ","Ⳟ","Ⳡ","Ⳣ","Ⳬ","Ⳮ","Ⳳ","U+A640","U+A642","U+A644","U+A646","U+A648","U+A64A",
   "U+A64C","U+A64E","U+A650","U+A652","U+A654","U+A656","U+A658","U+A65A","U+A65C","U+A65E",
   "U+A660","U+A662","U+A664","U+A666","U+A668","U+A66A","U+A66C","Ꚁ","Ꚃ","Ꚅ","Ꚇ","Ꚉ","Ꚋ","Ꚍ","Ꚏ",
   "Ꚑ","Ꚓ","Ꚕ","Ꚗ","Ꚙ","Ꚛ","U+A722","U+A724","U+A726","U+A728","U+A72A","U+A72C","U+A72E","U+A732",
   "U+A734","U+A736","U+A738","U+A73A","U+A73C","U+A73E","U+A740","U+A742","U+A744","U+A746",
   "U+A748","U+A74A","U+A74C","U+A74E","U+A750","U+A752","U+A754","U+A756","U+A758","U+A75A",
   "U+A75C","U+A75E","U+A760","U+A762","U+A764","U+A766","U+A768","U+A76A","U+A76C","U+A76E",
   "U+A779","U+A77B","U+A77D","U+A77E","Ꞁ","Ꞃ","Ꞅ","Ꞇ","Ꞌ","Ɥ","Ꞑ","Ꞓ","Ꞗ","Ꞙ","Ꞛ","Ꞝ","Ꞟ","Ꞡ","Ꞣ",
   "Ꞥ","Ꞧ","Ꞩ","Ɦ","Ɜ","Ɡ","Ɬ","Ɪ","Ʞ","Ʇ","Ʝ","Ꭓ","Ꞵ","Ꞷ","Ꞹ","Ꞻ","Ꞽ","Ꞿ","Ꟁ","Ꟃ","Ꞔ","Ʂ","Ᶎ","Ꟈ",
   "Ꟊ","Ꟑ","Ꟗ","Ꟙ","Ꟶ","U+FF21","U+FF22","U+FF23","U+FF24","U+FF25","U+FF26","U+FF27","U+FF28",
   "U+FF29","U+FF2A","U+FF2B","U+FF2C","U+FF2D","U+FF2E","U+FF2F","U+FF30","U+FF31","U+FF32",
   "U+FF33","U+FF34","U+FF35","U+FF36","U+FF37","U+FF38","U+FF39","U+FF3A","U+10400","U+10401",
   "U+10402","U+10403","U+10404","U+10405","U+10406","U+10407","U+10408","U+10409","U+1040A",
   "U+1040B","U+1040C","U+1040D","U+1040E","U+1040F","U+10410","U+10411","U+10412","U+10413",
   "U+10414","U+10415","U+10416","U+10417","U+10418","U+10419","U+1041A","U+1041B","U+1041C",
   "U+1041D","U+1041E","U+1041F","U+10420","U+10421","U+10422","U+10423","U+10424","U+10425",
   "U+10426","U+10427","U+104B0","U+104B1","U+104B2","U+104B3","U+104B4","U+104B5","U+104B6",
   "U+104B7","U+104B8","U+104B9","U+104BA","U+104BB","U+104BC","U+104BD","U+104BE","U+104BF",
   "U+104C0","U+104C1","U+104C2","U+104C3","U+104C4","U+104C5","U+104C6","U+104C7","U+104C8",
   "U+104C9","U+104CA","U+104CB","U+104CC","U+104CD","U+104CE","U+104CF","U+104D0","U+104D1",
   "U+104D2","U+104D3","U+10570","U+10571","U+10572","U+10573","U+10574","U+10575","U+10576",
   "U+10577","U+10578","U+10579","U+1057A","U+1057C","U+1057D","U+1057E","U+1057F","U+10580",
   "U+10581","U+10582","U+10583","U+10584","U+10585","U+10586","U+10587","U+10588","U+10589",
   "U+1058A","U+1058C","U+1058D","U+1058E","U+1058F","U+10590","U+10591","U+10592","U+10594",
   "U+10595","U+10C80","U+10C81","U+10C82","U+10C83","U+10C84","U+10C85","U+10C86","U+10C87",
   "U+10C88","U+10C89","U+10C8A","U+10C8B","U+10C8C","U+10C8D","U+10C8E","U+10C8F","U+10C90",
   "U+10C91","U+10C92","U+10C93","U+10C94","U+10C95","U+10C96","U+10C97","U+10C98","U+10C99",
   "U+10C9A","U+10C9B","U+10C9C","U+10C9D","U+10C9E","U+10C9F","U+10CA0","U+10CA1","U+10CA2",
   "U+10CA3","U+10CA4","U+10CA5","U+10CA6","U+10CA7","U+10CA8","U+10CA9","U+10CAA","U+10CAB",
   "U+10CAC","U+10CAD","U+10CAE","U+10CAF","U+10CB0","U+10CB1","U+10CB2","U+118A0","U+118A1",
   "U+118A2","U+118A3","U+118A4","U+118A5","U+118A6","U+118A7","U+118A8","U+118A9","U+118AA",
   "U+118AB","U+118AC","U+118AD","U+118AE","U+118AF","U+118B0","U+118B1","U+118B2","U+118B3",
   "U+118B4","U+118B5","U+118B6","U+118B7","U+118B8","U+118B9","U+118BA","U+118BB","U+118BC",
   "U+118BD","U+118BE","U+118BF","U+16E40","U+16E41","U+16E42","U+16E43","U+16E44","U+16E45",
   "U+16E46","U+16E47","U+16E48","U+16E49","U+16E4A","U+16E4B","U+16E4C","U+16E4D","U+16E4E",
   "U+16E4F","U+16E50","U+16E51","U+16E52","U+16E53","U+16E54","U+16E55","U+16E56","U+16E57",
   "U+16E58","U+16E59","U+16E5A","U+16E5B","U+16E5C","U+16E5D","U+16E5E","U+16E5F","U+1E900",
   "U+1E901","U+1E902","U+1E903","U+1E904","U+1E905","U+1E906","U+1E907","U+1E908","U+1E909",
   "U+1E90A","U+1E90B","U+1E90C","U+1E90D","U+1E90E","U+1E90F","U+1E910","U+1E911","U+1E912",
   "U+1E913","U+1E914","U+1E915","U+1E916","U+1E917","U+1E918","U+1E919","U+1E91A","U+1E91B",
   "U+1E91C","U+1E91D","U+1E91E","U+1E91F","U+1E920","U+1E921"
  >>

LOWER ==
  <<
   <<"a">>,<<"b">>,<<"c">>,<<"d">>,<<"e">>,<<"f">>,<<"g">>,<<"h">>,<<"i">>,<<"j">>,<<"k">>,<<"l">>,
   <<"m">>,<<"n">>,<<"o">>,<<"p">>,<<"q">>,<<"r">>,<<"s">>,<<"t">>,<<"u">>,<<"v">>,<<"w">>,<<"x">>,
   <<"y">>,<<"z">>,<<"à">>,<<"á">>,<<"â">>,<<"ã">>,<<"ä">>,<<"å">>,<<"æ">>,<<"ç">>,<<"è">>,<<"é">>,
   <<"ê">>,<<"ë">>,<<"ì">>,<<"í">>,<<"î">>,<<"ï">>,<<"ð">>,<<"ñ">>,<<"ò">>,<<"ó">>,<<"ô">>,<<"õ">>,
   <<"ö">>,<<"ø">>,<<"ù">>,<<"ú">>,<<"û">>,<<"ü">>,<<"ý">>,<<"þ">>,<<"U+0101">>,<<"U+0103">>,
   <<"U+0105">>,<<"U+0107">>,<<"U+0109">>,<<"U+010B">>,<<"U+010D">>,<<"U+010F">>,<<"U+0111">>,
   <<"U+0113">>,<<"U+0115">>,<<"U+0117">>,<<"U+0119">>,<<"U+011B">>,<<"U+011D">>,<<"U+011F">>,
   <<"U+0121">>,<<"U+0123">>,<<"U+0125">>,<<"U+0127">>,<<"U+0129">>,<<"U+012B">>,<<"U+012D">>,
   <<"U+012F">>,<<"i","U+0307">>,<<"U+0133">>,<<"U+0135">>,<<"U+0137">>,<<"U+013A">>,<<"U+013C">>,
   <<"U+013E">>,<<"U+0140">>,<<"U+0142">>,<<"U+0144">>,<<"U+0146">>,<<"U+0148">>,<<"U+014B">>,
   <<"U+014D">>,<<"U+014F">>,<<"U+0151">>,<<"U+0153">>,<<"U+0155">>,<<"U+0157">>,<<"U+0159">>,
   <<"U+015B">>,<<"U+015D">>,<<"U+015F">>,<<"U+0161">>,<<"U+0163">>,<<"U+0165">>,<<"U+0167">>,
   <<"U+0169">>,<<"U+016B">>,<<"U+016D">>,<<"U+016F">>,<<"U+0171">>,<<"U+0173">>,<<"U+0175">>,
   <<"U+0177">>,<<"ÿ">>,<<"U+017A">>,<<"U+017C">>,<<"U+017E">>,<<"U+0253">>,<<"ƃ">>,<<"ƅ">>,
   <<"U+0254">>,<<"ƈ">>,<<"U+0256">>,<<"U+0257">>,<<"ƌ">>,<<"ǝ">>,<<"U+0259">>,<<"U+025B">>,<<"ƒ">>,
   <<"U+0260">>,<<"U+0263">>,<<"U+0269">>,<<"U+0268">>,<<"ƙ">>,<<"U+026F">>,<<"U+0272">>,
   <<"U+0275">>,<<"ơ">>,<<"ƣ">>,<<"ƥ">>,<<"ʀ">>,<<"ƨ">>,<<"ʃ">>,<<"ƭ">>,<<"ʈ">>,<<"ư">>,<<"ʊ">>,
   <<"ʋ">>,<<"ƴ">>,<<"ƶ">>,<<"ʒ">>,<<"ƹ">>,<<"ƽ">>,<<"ǆ">>,<<"ǆ">>,<<"ǉ">>,<<"ǉ">>,<<"ǌ">>,<<"ǌ">>,
   <<"ǎ">>,<<"ǐ">>,<<"ǒ">>,<<"ǔ">>,<<"ǖ">>,<<"ǘ">>,<<"ǚ">>,<<"ǜ">>,<<"ǟ">>,<<"ǡ">>,<<"ǣ">>,<<"ǥ">>,
   <<"ǧ">>,<<"ǩ">>,<<"ǫ">>,<<"ǭ">>,<<"ǯ">>,<<"ǳ">>,<<"ǳ">>,<<"ǵ">>,<<"ƕ">>,<<"ƿ">>,<<"ǹ">>,<<"ǻ">>,
   <<"ǽ">>,<<"ǿ">>,<<"U+0201">>,<<"U+0203">>,<<"U+0205">>,<<"U+0207">>,<<"U+0209">>,<<"U+020B">>,
   <<"U+020D">>,<<"U+020F">>,<<"U+0211">>,<<"U+0213">>,<<"U+0215">>,<<"U+0217">>,<<"U+0219">>,
   <<"U+021B">>,<<"U+021D">>,<<"U+021F">>,<<"ƞ">>,<<"U+0223">>,<<"U+0225">>,<<"U+0227">>,
   <<"U+0229">>,<<"U+022B">>,<<"U+022D">>,<<"U+022F">>,<<"U+0231">>,<<"U+0233">>,<<"U+2C65">>,
   <<"U+023C">>,<<"ƚ">>,<<"U+2C66">>,<<"U+0242">>,<<"ƀ">>,<<"ʉ">>,<<"ʌ">>,<<"U+0247">>,<<"U+0249">>,
   <<"U+024B">>,<<"U+024D">>,<<"U+024F">>,<<"U+0371">>,<<"U+0373">>,<<"U+0377">>,<<"ϳ">>,<<"ά">>,
   <<"έ">>,<<"ή">>,<<"ί">>,<<"ό">>,<<"ύ">>,<<"ώ">>,<<"α">>,<<"β">>,<<"γ">>,<<"δ">>,<<"ε">>,<<"ζ">>,
   <<"η">>,<<"θ">>,<<"ι">>,<<"κ">>,<<"λ">>,<<"μ">>,<<"ν">>,<<"ξ">>,<<"ο">>,<<"π">>,<<"ρ">>,<<"σ">>,
   <<"τ">>,<<"υ">>,<<"φ">>,<<"χ">>,<<"ψ">>,<<"ω">>,<<"ϊ">>,<<"ϋ">>,<<"ϗ">>,<<"ϙ">>,<<"ϛ">>,<<"ϝ">>,
   <<"ϟ">>,<<"ϡ">>,<<"ϣ">>,<<"ϥ">>,<<"ϧ">>,<<"ϩ">>,<<"ϫ">>,<<"ϭ">>,<<"ϯ">>,<<"θ">>,<<"ϸ">>,<<"ϲ">>,
   <<"ϻ">>,<<"U+037B">>,<<"U+037C">>,<<"U+037D">>,<<"U+0450">>,<<"U+0451">>,<<"U+0452">>,
   <<"U+0453">>,<<"U+0454">>,<<"U+0455">>,<<"U+0456">>,<<"U+0457">>,<<"U+0458">>,<<"U+0459">>,
   <<"U+045A">>,<<"U+045B">>,<<"U+045C">>,<<"U+045D">>,<<"U+045E">>,<<"U+045F">>,<<"U+0430">>,
   <<"U+0431">>,<<"U+0432">>,<<"U+0433">>,<<"U+0434">>,<<"U+0435">>,<<"U+0436">>,<<"U+0437">>,
   <<"U+0438">>,<<"U+0439">>,<<"U+043A">>,<<"U+043B">>,<<"U+043C">>,<<"U+043D">>,<<"U+043E">>,
   <<"U+043F">>,<<"U+0440">>,<<"U+0441">>,<<"U+0442">>,<<"U+0443">>,<<"U+0444">>,<<"U+0445">>,
   <<"U+0446">>,<<"U+0447">>,<<"U+0448">>,<<"U+0449">>,<<"U+044A">>,<<"U+044B">>,<<"U+044C">>,
   <<"U+044D">>,<<"U+044E">>,<<"U+044F">>,<<"U+0461">>,<<"U+0463">>,<<"U+0465">>,<<"U+0467">>,
   <<"U+0469">>,<<"U+046B">>,<<"U+046D">>,<<"U+046F">>,<<"U+0471">>,<<"U+0473">>,<<"U+0475">>,
   <<"U+0477">>,<<"U+0479">>,<<"U+047B">>,<<"U+047D">>,<<"U+047F">>,<<"ҁ">>,<<"ҋ">>,<<"ҍ">>,<<"ҏ">>,
   <<"ґ">>,<<"ғ">>,<<"ҕ">>,<<"җ">>,<<"ҙ">>,<<"қ">>,<<"ҝ">>,<<"ҟ">>,<<"ҡ">>,<<"ң">>,<<"ҥ">>,<<"ҧ">>,
   <<"ҩ">>,<<"ҫ">>,<<"ҭ">>,<<"ү">>,<<"ұ">>,<<"ҳ">>,<<"ҵ">>,<<"ҷ">>,<<"ҹ">>,<<"һ">>,<<"ҽ">>,<<"ҿ">>,
   <<"ӏ">>,<<"ӂ">>,<<"ӄ">>,<<"ӆ">>,<<"ӈ">>,<<"ӊ">>,<<"ӌ">>,<<"ӎ">>,<<"ӑ">>,<<"ӓ">>,<<"ӕ">>,<<"ӗ">>,
   <<"ә">>,<<"ӛ">>,<<"ӝ">>,<<"ӟ">>,<<"ӡ">>,<<"ӣ">>,<<"ӥ">>,<<"ӧ">>,<<"ө">>,<<"ӫ">>,<<"ӭ">>,<<"ӯ">>,
   <<"ӱ">>,<<"ӳ">>,<<"ӵ">>,<<"ӷ">>,<<"ӹ">>,<<"ӻ">>,<<"ӽ">>,<<"ӿ">>,<<"U+0501">>,<<"U+0503">>,
   <<"U+0505">>,<<"U+0507">>,<<"U+0509">>,<<"U+050B">>,<<"U+050D">>,<<"U+050F">>,<<"U+0511">>,
   <<"U+0513">>,<<"U+0515">>,<<"U+0517">>,<<"U+0519">>,<<"U+051B">>,<<"U+051D">>,<<"U+051F">>,
   <<"U+0521">>,<<"U+0523">>,<<"U+0525">>,<<"U+0527">>,<<"U+0529">>,<<"U+052B">>,<<"U+052D">>,
   <<"U+052F">>,<<"U+0561">>,<<"U+0562">>,<<"U+0563">>,<<"U+0564">>,<<"U+0565">>,<<"U+0566">>,
   <<"U+0567">>,<<"U+0568">>,<<"U+0569">>,<<"U+056A">>,<<"U+056B">>,<<"U+056C">>,<<"U+056D">>,
   <<"U+056E">>,<<"U+056F">>,<<"U+0570">>,<<"U+0571">>,<<"U+0572">>,<<"U+0573">>,<<"U+0574">>,
   <<"U+0575">>,<<"U+0576">>,<<"U+0577">>,<<"U+0578">>,<<"U+0579">>,<<"U+057A">>,<<"U+057B">>,
   <<"U+057C">>,<<"U+057D">>,<<"U+057E">>,<<"U+057F">>,<<"ր">>,<<"ց">>,<<"ւ">>,<<"փ">>,<<"ք">>,
   <<"օ">>,<<"ֆ">>,<<"U+2D00">>,<<"U+2D01">>,<<"U+2D02">>,<<"U+2D03">>,<<"U+2D04">>,<<"U+2D05">>,
   <<"U+2D06">>,<<"U+2D07">>,<<"U+2D08">>,<<"U+2D09">>,<<"U+2D0A">>,<<"U+2D0B">>,<<"U+2D0C">>,
   <<"U+2D0D">>,<<"U+2D0E">>,<<"U+2D0F">>,<<"U+2D10">>,<<"U+2D11">>,<<"U+2D12">>,<<"U+2D13">>,
   <<"U+2D14">>,<<"U+2D15">>,<<"U+2D16">>,<<"U+2D17">>,<<"U+2D18">>,<<"U+2D19">>,<<"U+2D1A">>,
   <<"U+2D1B">>,<<"U+2D1C">>,<<"U+2D1D">>,<<"U+2D1E">>,<<"U+2D1F">>,<<"U+2D20">>,<<"U+2D21">>,
   <<"U+2D22">>,<<"U+2D23">>,<<"U+2D24">>,<<"U+2D25">>,<<"U+2D27">>,<<"U+2D2D">>,<<"U+AB70">>,
   <<"U+AB71">>,<<"U+AB72">>,<<"U+AB73">>,<<"U+AB74">>,<<"U+AB75">>,<<"U+AB76">>,<<"U+AB77">>,
   <<"U+AB78">>,<<"U+AB79">>,<<"U+AB7A">>,<<"U+AB7B">>,<<"U+AB7C">>,<<"U+AB7D">>,<<"U+AB7E">>,
   <<"U+AB7F">>,<<"ꮀ">>,<<"ꮁ">>,<<"ꮂ">>,<<"ꮃ">>,<<"ꮄ">>,<<"ꮅ">>,<<"ꮆ">>,<<"ꮇ">>,<<"ꮈ">>,<<"ꮉ">>,
   <<"ꮊ">>,<<"ꮋ">>,<<"ꮌ">>,<<"ꮍ">>,<<"ꮎ">>,<<"ꮏ">>,<<"ꮐ">>,<<"ꮑ">>,<<"ꮒ">>,<<"ꮓ">>,<<"ꮔ">>,<<"ꮕ">>,
   <<"ꮖ">>,<<"ꮗ">>,<<"ꮘ">>,<<"ꮙ">>,<<"ꮚ">>,<<"ꮛ">>,<<"ꮜ">>,<<"ꮝ">>,<<"ꮞ">>,<<"ꮟ">>,<<"ꮠ">>,<<"ꮡ">>,
   <<"ꮢ">>,<<"ꮣ">>,<<"ꮤ">>,<<"ꮥ">>,<<"ꮦ">>,<<"ꮧ">>,<<"ꮨ">>,<<"ꮩ">>,<<"ꮪ">>,<<"ꮫ">>,<<"ꮬ">>,<<"ꮭ">>,
   <<"ꮮ">>,<<"ꮯ">>,<<"ꮰ">>,<<"ꮱ">>,<<"ꮲ">>,<<"ꮳ">>,<<"ꮴ">>,<<"ꮵ">>,<<"ꮶ">>,<<"ꮷ">>,<<"ꮸ">>,<<"ꮹ">>,
   <<"ꮺ">>,<<"ꮻ">>,<<"ꮼ">>,<<"ꮽ">>,<<"ꮾ">>,<<"ꮿ">>,<<"ᏸ">>,<<"ᏹ">>,<<"ᏺ">>,<<"ᏻ">>,<<"ᏼ">>,<<"ᏽ">>,
   <<"ა">>,<<"ბ">>,<<"გ">>,<<"დ">>,<<"ე">>,<<"ვ">>,<<"ზ">>,<<"თ">>,<<"ი">>,<<"კ">>,<<"ლ">>,<<"მ">>,
   <<"ნ">>,<<"ო">>,<<"პ">>,<<"ჟ">>,<<"რ">>,<<"ს">>,<<"ტ">>,<<"უ">>,<<"ფ">>,<<"ქ">>,<<"ღ">>,<<"ყ">>,
   <<"შ">>,<<"ჩ">>,<<"ც">>,<<"ძ">>,<<"წ">>,<<"ჭ">>,<<"ხ">>,<<"ჯ">>,<<"ჰ">>,<<"ჱ">>,<<"ჲ">>,<<"ჳ">>,
   <<"ჴ">>,<<"ჵ">>,<<"ჶ">>,<<"ჷ">>,<<"ჸ">>,<<"ჹ">>,<<"ჺ">>,<<"ჽ">>,<<"ჾ">>,<<"ჿ">>,<<"U+1E01">>,
   <<"U+1E03">>,<<"U+1E05">>,<<"U+1E07">>,<<"U+1E09">>,<<"U+1E0B">>,<<"U+1E0D">>,<<"U+1E0F">>,
   <<"U+1E11">>,<<"U+1E13">>,<<"U+1E15">>,<<"U+1E17">>,<<"U+1E19">>,<<"U+1E1B">>,<<"U+1E1D">>,
   <<"U+1E1F">>,<<"U+1E21">>,<<"U+1E23">>,<<"U+1E25">>,<<"U+1E27">>,<<"U+1E29">>,<<"U+1E2B">>,
   <<"U+1E2D">>,<<"U+1E2F">>,<<"U+1E31">>,<<"U+1E33">>,<<"U+1E35">>,<<"U+1E37">>,<<"U+1E39">>,
   <<"U+1E3B">>,<<"U+1E3D">>,<<"U+1E3F">>,<<"U+1E41">>,<<"U+1E43">>,<<"U+1E45">>,<<"U+1E47">>,
   <<"U+1E49">>,<<"U+1E4B">>,<<"U+1E4D">>,<<"U+1E4F">>,<<"U+1E51">>,<<"U+1E53">>,<<"U+1E55">>,
   <<"U+1E57">>,<<"U+1E59">>,<<"U+1E5B">>,<<"U+1E5D">>,<<"U+1E5F">>,<<"U+1E61">>,<<"U+1E63">>,
   <<"U+1E65">>,<<"U+1E67">>,<<"U+1E69">>,<<"U+1E6B">>,<<"U+1E6D">>,<<"U+1E6F">>,<<"U+1E71">>,
   <<"U+1E73">>,<<"U+1E75">>,<<"U+1E77">>,<<"U+1E79">>,<<"U+1E7B">>,<<"U+1E7D">>,<<"U+1E7F">>,
   <<"ẁ">>,<<"ẃ">>,<<"ẅ">>,<<"ẇ">>,<<"ẉ">>,<<"ẋ">>,<<"ẍ">>,<<"ẏ">>,<<"ẑ">>,<<"ẓ">>,<<"ẕ">>,<<"ß">>,
   <<"ạ">>,<<"ả">>,<<"ấ">>,<<"ầ">>,<<"ẩ">>,<<"ẫ">>,<<"ậ">>,<<"ắ">>,<<"ằ">>,<<"ẳ">>,<<"ẵ">>,<<"ặ">>,
   <<"ẹ">>,<<"ẻ">>,<<"ẽ">>,<<"ế">>,<<"ề">>,<<"ể">>,<<"ễ">>,<<"ệ">>,<<"ỉ">>,<<"ị">>,<<"ọ">>,<<"ỏ">>,
   <<"ố">>,<<"ồ">>,<<"ổ">>,<<"ỗ">>,<<"ộ">>,<<"ớ">>,<<"ờ">>,<<"ở">>,<<"ỡ">>,<<"ợ">>,<<"ụ">>,<<"ủ">>,
   <<"ứ">>,<<"ừ">>,<<"ử">>,<<"ữ">>,<<"ự">>,<<"ỳ">>,<<"ỵ">>,<<"ỷ">>,<<"ỹ">>,<<"ỻ">>,<<"ỽ">>,<<"ỿ">>,
   <<"U+1F00">>,<<"U+1F01">>,<<"U+1F02">>,<<"U+1F03">>,<<"U+1F04">>,<<"U+1F05">>,<<"U+1F06">>,
   <<"U+1F07">>,<<"U+1F10">>,<<"U+1F11">>,<<"U+1F12">>,<<"U+1F13">>,<<"U+1F14">>,<<"U+1F15">>,
   <<"U+1F20">>,<<"U+1F21">>,<<"U+1F22">>,<<"U+1F23">>,<<"U+1F24">>,<<"U+1F25">>,<<"U+1F26">>,
   <<"U+1F27">>,<<"U+1F30">>,<<"U+1F31">>,<<"U+1F32">>,<<"U+1F33">>,<<"U+1F34">>,<<"U+1F35">>,
   <<"U+1F36">>,<<"U+1F37">>,<<"U+1F40">>,<<"U+1F41">>,<<"U+1F42">>,<<"U+1F43">>,<<"U+1F44">>,
   <<"U+1F45">>,<<"U+1F51">>,<<"U+1F53">>,<<"U+1F55">>,<<"U+1F57">>,<<"U+1F60">>,<<"U+1F61">>,
   <<"U+1F62">>,<<"U+1F63">>,<<"U+1F64">>,<<"U+1F65">>,<<"U+1F66">>,<<"U+1F67">>,<<"ᾀ">>,<<"ᾁ">>,
   <<"ᾂ">>,<<"ᾃ">>,<<"ᾄ">>,<<"ᾅ">>,<<"ᾆ">>,<<"ᾇ">>,<<"ᾐ">>,<<"ᾑ">>,<<"ᾒ">>,<<"ᾓ">>,<<"ᾔ">>,<<"ᾕ">>,
   <<"ᾖ">>,<<"ᾗ">>,<<"ᾠ">>,<<"ᾡ">>,<<"ᾢ">>,<<"ᾣ">>,<<"ᾤ">>,<<"ᾥ">>,<<"ᾦ">>,<<"ᾧ">>,<<"ᾰ">>,<<"ᾱ">>,
   <<"U+1F70">>,<<"U+1F71">>,<<"ᾳ">>,<<"U+1F72">>,<<"U+1F73">>,<<"U+1F74">>,<<"U+1F75">>,<<"ῃ">>,
   <<"ῐ">>,<<"ῑ">>,<<"U+1F76">>,<<"U+1F77">>,<<"ῠ">>,<<"ῡ">>,<<"U+1F7A">>,<<"U+1F7B">>,<<"ῥ">>,
   <<"U+1F78">>,<<"U+1F79">>,<<"U+1F7C">>,<<"U+1F7D">>,<<"ῳ">>,<<"ω">>,<<"k">>,<<"å">>,<<"U+214E">>,
   <<"U+2170">>,<<"U+2171">>,<<"U+2172">>,<<"U+2173">>,<<"U+2174">>,<<"U+2175">>,<<"U+2176">>,
   <<"U+2177">>,<<"U+2178">>,<<"U+2179">>,<<"U+217A">>,<<"U+217B">>,<<"U+217C">>,<<"U+217D">>,
   <<"U+217E">>,<<"U+217F">>,<<"ↄ">>,<<"ⓐ">>,<<"ⓑ">>,<<"ⓒ">>,<<"ⓓ">>,<<"ⓔ">>,<<"ⓕ">>,<<"ⓖ">>,
   <<"ⓗ">>,<<"ⓘ">>,<<"ⓙ">>,<<"ⓚ">>,<<"ⓛ">>,<<"ⓜ">>,<<"ⓝ">>,<<"ⓞ">>,<<"ⓟ">>,<<"ⓠ">>,<<"ⓡ">>,<<"ⓢ">>,
   <<"ⓣ">>,<<"ⓤ">>,<<"ⓥ">>,<<"ⓦ">>,<<"ⓧ">>,<<"ⓨ">>,<<"ⓩ">>,<<"U+2C30">>,<<"U+2C31">>,<<"U+2C32">>,
   <<"U+2C33">>,<<"U+2C34">>,<<"U+2C35">>,<<"U+2C36">>,<<"U+2C37">>,<<"U+2C38">>,<<"U+2C39">>,
   <<"U+2C3A">>,<<"U+2C3B">>,<<"U+2C3C">>,<<"U+2C3D">>,<<"U+2C3E">>,<<"U+2C3F">>,<<"U+2C40">>,
   <<"U+2C41">>,<<"U+2C42">>,<<"U+2C43">>,<<"U+2C44">>,<<"U+2C45">>,<<"U+2C46">>,<<"U+2C47">>,
   <<"U+2C48">>,<<"U+2C49">>,<<"U+2C4A">>,<<"U+2C4B">>,<<"U+2C4C">>,<<"U+2C4D">>,<<"U+2C4E">>,
   <<"U+2C4F">>,<<"U+2C50">>,<<"U+2C51">>,<<"U+2C52">>,<<"U+2C53">>,<<"U+2C54">>,<<"U+2C55">>,
   <<"U+2C56">>,<<"U+2C57">>,<<"U+2C58">>,<<"U+2C59">>,<<"U+2C5A">>,<<"U+2C5B">>,<<"U+2C5C">>,
   <<"U+2C5D">>,<<"U+2C5E">>,<<"U+2C5F">>,<<"U+2C61">>,<<"U+026B">>,<<"U+1D7D">>,<<"U+027D">>,
   <<"U+2C68">>,<<"U+2C6A">>,<<"U+2C6C">>,<<"U+0251">>,<<"U+0271">>,<<"U+0250">>,<<"U+0252">>,
   <<"U+2C73">>,<<"U+2C76">>,<<"U+023F">>,<<"U+0240">>,<<"ⲁ">>,<<"ⲃ">>,<<"ⲅ">>,<<"ⲇ">>,<<"ⲉ">>,
   <<"ⲋ">>,<<"ⲍ">>,<<"ⲏ">>,<<"ⲑ">>,<<"ⲓ">>,<<"ⲕ">>,<<"ⲗ">>,<<"ⲙ">>,<<"ⲛ">>,<<"ⲝ">>,<<"ⲟ">>,<<"ⲡ">>,
   <<"ⲣ">>,<<"ⲥ">>,<<"ⲧ">>,<<"ⲩ">>,<<"ⲫ">>,<<"ⲭ">>,<<"ⲯ">>,<<"ⲱ">>,<<"ⲳ">>,<<"ⲵ">>,<<"ⲷ">>,<<"ⲹ">>,
   <<"ⲻ">>,<<"ⲽ">>,<<"ⲿ">>,<<"ⳁ">>,<<"ⳃ">>,<<"ⳅ">>,<<"ⳇ">>,<<"ⳉ">>,<<"ⳋ">>,<<"ⳍ">>,<<"ⳏ">>,<<"ⳑ">>,
   <<"ⳓ">>,<<"ⳕ">>,<<"ⳗ">>,<<"ⳙ">>,<<"ⳛ">>,<<"ⳝ">>,<<"ⳟ">>,<<"ⳡ">>,<<"ⳣ">>,<<"ⳬ">>,<<"ⳮ">>,<<"ⳳ">>,
   <<"U+A641">>,<<"U+A643">>,<<"U+A645">>,<<"U+A647">>,<<"U+A649">>,<<"U+A64B">>,<<"U+A64D">>,
   <<"U+A64F">>,<<"U+A651">>,<<"U+A653">>,<<"U+A655">>,<<"U+A657">>,<<"U+A659">>,<<"U+A65B">>,
   <<"U+A65D">>,<<"U+A65F">>,<<"U+A661">>,<<"U+A663">>,<<"U+A665">>,<<"U+A667">>,<<"U+A669">>,
   <<"U+A66B">>,<<"U+A66D">>,<<"ꚁ">>,<<"ꚃ">>,<<"ꚅ">>,<<"ꚇ">>,<<"ꚉ">>,<<"ꚋ">>,<<"ꚍ">>,<<"ꚏ">>,
   <<"ꚑ">>,<<"ꚓ">>,<<"ꚕ">>,<<"ꚗ">>,<<"ꚙ">>,<<"ꚛ">>,<<"U+A723">>,<<"U+A725">>,<<"U+A727">>,
   <<"U+A729">>,<<"U+A72B">>,<<"U+A72D">>,<<"U+A72F">>,<<"U+A733">>,<<"U+A735">>,<<"U+A737">>,
   <<"U+A739">>,<<"U+A73B">>,<<"U+A73D">>,<<"U+A73F">>,<<"U+A741">>,<<"U+A743">>,<<"U+A745">>,
   <<"U+A747">>,<<"U+A749">>,<<"U+A74B">>,<<"U+A74D">>,<<"U+A74F">>,<<"U+A751">>,<<"U+A753">>,
   <<"U+A755">>,<<"U+A757">>,<<"U+A759">>,<<"U+A75B">>,<<"U+A75D">>,<<"U+A75F">>,<<"U+A761">>,
   <<"U+A763">>,<<"U+A765">>,<<"U+A767">>,<<"U+A769">>,<<"U+A76B">>,<<"U+A76D">>,<<"U+A76F">>,
   <<"U+A77A">>,<<"U+A77C">>,<<"U+1D79">>,<<"U+A77F">>,<<"ꞁ">>,<<"ꞃ">>,<<"ꞅ">>,<<"ꞇ">>,<<"ꞌ">>,
   <<"U+0265">>,<<"ꞑ">>,<<"ꞓ">>,<<"ꞗ">>,<<"ꞙ">>,<<"ꞛ">>,<<"ꞝ">>,<<"ꞟ">>,<<"ꞡ">>,<<"ꞣ">>,<<"ꞥ">>,
   <<"ꞧ">>,<<"ꞩ">>,<<"U+0266">>,<<"U+025C">>,<<"U+0261">>,<<"U+026C">>,<<"U+026A">>,<<"ʞ">>,<<"ʇ">>,
   <<"ʝ">>,<<"U+AB53">>,<<"ꞵ">>,<<"ꞷ">>,<<"ꞹ">>,<<"ꞻ">>,<<"ꞽ">>,<<"ꞿ">>,<<"ꟁ">>,<<"ꟃ">>,<<"ꞔ">>,
   <<"ʂ">>,<<"ᶎ">>,<<"ꟈ">>,<<"ꟊ">>,<<"ꟑ">>,<<"ꟗ">>,<<"ꟙ">>,<<"ꟶ">>,<<"U+FF41">>,<<"U+FF42">>,
   <<"U+FF43">>,<<"U+FF44">>,<<"U+FF45">>,<<"U+FF46">>,<<"U+FF47">>,<<"U+FF48">>,<<"U+FF49">>,
   <<"U+FF4A">>,<<"U+FF4B">>,<<"U+FF4C">>,<<"U+FF4D">>,<<"U+FF4E">>,<<"U+FF4F">>,<<"U+FF50">>,
   <<"U+FF51">>,<<"U+FF52">>,<<"U+FF53">>,<<"U+FF54">>,<<"U+FF55">>,<<"U+FF56">>,<<"U+FF57">>,
   <<"U+FF58">>,<<"U+FF59">>,<<"U+FF5A">>,<<"U+10428">>,<<"U+10429">>,<<"U+1042A">>,<<"U+1042B">>,
   <<"U+1042C">>,<<"U+1042D">>,<<"U+1042E">>,<<"U+1042F">>,<<"U+10430">>,<<"U+10431">>,
   <<"U+10432">>,<<"U+10433">>,<<"U+10434">>,<<"U+10435">>,<<"U+10436">>,<<"U+10437">>,
   <<"U+10438">>,<<"U+10439">>,<<"U+1043A">>,<<"U+1043B">>,<<"U+1043C">>,<<"U+1043D">>,
   <<"U+1043E">>,<<"U+1043F">>,<<"U+10440">>,<<"U+10441">>,<<"U+10442">>,<<"U+10443">>,
   <<"U+10444">>,<<"U+10445">>,<<"U+10446">>,<<"U+10447">>,<<"U+10448">>,<<"U+10449">>,
   <<"U+1044A">>,<<"U+1044B">>,<<"U+1044C">>,<<"U+1044D">>,<<"U+1044E">>,<<"U+1044F">>,
   <<"U+104D8">>,<<"U+104D9">>,<<"U+104DA">>,<<"U+104DB">>,<<"U+104DC">>,<<"U+104DD">>,
   <<"U+104DE">>,<<"U+104DF">>,<<"U+104E0">>,<<"U+104E1">>,<<"U+104E2">>,<<"U+104E3">>,
   <<"U+104E4">>,<<"U+104E5">>,<<"U+104E6">>,<<"U+104E7">>,<<"U+104E8">>,<<"U+104E9">>,
   <<"U+104EA">>,<<"U+104EB">>,<<"U+104EC">>,<<"U+104ED">>,<<"U+104EE">>,<<"U+104EF">>,
   <<"U+104F0">>,<<"U+104F1">>,<<"U+104F2">>,<<"U+104F3">>,<<"U+104F4">>,<<"U+104F5">>,
   <<"U+104F6">>,<<"U+104F7">>,<<"U+104F8">>,<<"U+104F9">>,<<"U+104FA">>,<<"U+104FB">>,
   <<"U+10597">>,<<"U+10598">>,<<"U+10599">>,<<"U+1059A">>,<<"U+1059B">>,<<"U+1059C">>,
   <<"U+1059D">>,<<"U+1059E">>,<<"U+1059F">>,<<"U+105A0">>,<<"U+105A1">>,<<"U+105A3">>,
   <<"U+105A4">>,<<"U+105A5">>,<<"U+105A6">>,<<"U+105A7">>,<<"U+105A8">>,<<"U+105A9">>,
   <<"U+105AA">>,<<"U+105AB">>,<<"U+105AC">>,<<"U+105AD">>,<<"U+105AE">>,<<"U+105AF">>,
   <<"U+105B0">>,<<"U+105B1">>,<<"U+105B3">>,<<"U+105B4">>,<<"U+105B5">>,<<"U+105B6">>,
   <<"U+105B7">>,<<"U+105B8">>,<<"U+105B9">>,<<"U+105BB">>,<<"U+105BC">>,<<"U+10CC0">>,
   <<"U+10CC1">>,<<"U+10CC2">>,<<"U+10CC3">>,<<"U+10CC4">>,<<"U+10CC5">>,<<"U+10CC6">>,
   <<"U+10CC7">>,<<"U+10CC8">>,<<"U+10CC9">>,<<"U+10CCA">>,<<"U+10CCB">>,<<"U+10CCC">>,
   <<"U+10CCD">>,<<"U+10CCE">>,<<"U+10CCF">>,<<"U+10CD0">>,<<"U+10CD1">>,<<"U+10CD2">>,
   <<"U+10CD3">>,<<"U+10CD4">>,<<"U+10CD5">>,<<"U+10CD6">>,<<"U+10CD7">>,<<"U+10CD8">>,
   <<"U+10CD9">>,<<"U+10CDA">>,<<"U+10CDB">>,<<"U+10CDC">>,<<"U+10CDD">>,<<"U+10CDE">>,
   <<"U+10CDF">>,<<"U+10CE0">>,<<"U+10CE1">>,<<"U+10CE2">>,<<"U+10CE3">>,<<"U+10CE4">>,
   <<"U+10CE5">>,<<"U+10CE6">>,<<"U+10CE7">>,<<"U+10CE8">>,<<"U+10CE9">>,<<"U+10CEA">>,
   <<"U+10CEB">>,<<"U+10CEC">>,<<"U+10CED">>,<<"U+10CEE">>,<<"U+10CEF">>,<<"U+10CF0">>,
   <<"U+10CF1">>,<<"U+10CF2">>,<<"U+118C0">>,<<"U+118C1">>,<<"U+118C2">>,<<"U+118C3">>,
   <<"U+118C4">>,<<"U+118C5">>,<<"U+118C6">>,<<"U+118C7">>,<<"U+118C8">>,<<"U+118C9">>,
   <<"U+118CA">>,<<"U+118CB">>,<<"U+118CC">>,<<"U+118CD">>,<<"U+118CE">>,<<"U+118CF">>,
   <<"U+118D0">>,<<"U+118D1">>,<<"U+118D2">>,<<"U+118D3">>,<<"U+118D4">>,<<"U+118D5">>,
   <<"U+118D6">>,<<"U+118D7">>,<<"U+118D8">>,<<"U+118D9">>,<<"U+118DA">>,<<"U+118DB">>,
   <<"U+118DC">>,<<"U+118DD">>,<<"U+118DE">>,<<"U+118DF">>,<<"U+16E60">>,<<"U+16E61">>,
   <<"U+16E62">>,<<"U+16E63">>,<<"U+16E64">>,<<"U+16E65">>,<<"U+16E66">>,<<"U+16E67">>,
   <<"U+16E68">>,<<"U+16E69">>,<<"U+16E6A">>,<<"U+16E6B">>,<<"U+16E6C">>,<<"U+16E6D">>,
   <<"U+16E6E">>,<<"U+16E6F">>,<<"U+16E70">>,<<"U+16E71">>,<<"U+16E72">>,<<"U+16E73">>,
   <<"U+16E74">>,<<"U+16E75">>,<<"U+16E76">>,<<"U+16E77">>,<<"U+16E78">>,<<"U+16E79">>,
   <<"U+16E7A">>,<<"U+16E7B">>,<<"U+16E7C">>,<<"U+16E7D">>,<<"U+16E7E">>,<<"U+16E7F">>,
   <<"U+1E922">>,<<"U+1E923">>,<<"U+1E924">>,<<"U+1E925">>,<<"U+1E926">>,<<"U+1E927">>,
   <<"U+1E928">>,<<"U+1E929">>,<<"U+1E92A">>,<<"U+1E92B">>,<<"U+1E92C">>,<<"U+1E92D">>,
   <<"U+1E92E">>,<<"U+1E92F">>,<<"U+1E930">>,<<"U+1E931">>,<<"U+1E932">>,<<"U+1E933">>,
   <<"U+1E934">>,<<"U+1E935">>,<<"U+1E936">>,<<"U+1E937">>,<<"U+1E938">>,<<"U+1E939">>,
   <<"U+1E93A">>,<<"U+1E93B">>,<<"U+1E93C">>,<<"U+1E93D">>,<<"U+1E93E">>,<<"U+1E93F">>,
   <<"U+1E940">>,<<"U+1E941">>,<<"U+1E942">>,<<"U+1E943">>
  >>

(* The characters c with c.isspace() *)
WHITESPACE ==
  {
   "\t","\n","","\f","\r","","","",""," ",""," "," ","U+2000","U+2001","U+2002","U+2003",
   "U+2004","U+2005","U+2006","U+2007","U+2008","U+2009","U+200A","U+2028","U+2029","U+202F",
   "U+205F","U+3000"
  }

(* The characters str.lower() skips when it looks for the letters around a *)
(* capital sigma (Case_Ignorable), and the letters it looks for (Cased).   *)
CASE_IGNORABLE ==
  {
   "'",".",":","^","U+0060","¨","­","¯","´","·","¸","ʰ","ʱ","ʲ","ʳ","ʴ","ʵ","ʶ","ʷ","ʸ","ʹ","ʺ","ʻ",
   "ʼ","ʽ","ʾ","ʿ","ˀ","ˁ","˂","˃","˄","˅","ˆ","ˇ","ˈ","ˉ","ˊ","ˋ","ˌ","ˍ","ˎ","ˏ","ː","ˑ","˒","˓",
   "˔","˕","˖","˗","˘","˙","˚","˛","˜","˝","˞","˟","ˠ","ˡ","ˢ","ˣ","ˤ","˥","˦","˧","˨","˩","˪","˫",
   "ˬ","˭","ˮ","˯","˰","˱","˲","˳","˴","˵","˶","˷","˸","˹","˺","˻","˼","˽","˾","˿","U+0300",
   "U+0301","U+0302","U+0303","U+0304","U+0305","U+0306","U+0307","U+0308","U+0309","U+030A",
   "U+030B","U+030C","U+030D","U+030E","U+030F","U+0310","U+0311","U+0312","U+0313","U+0314",
   "U+0315","U+0316","U+0317","U+0318","U+0319","U+031A","U+031B","U+031C","U+031D","U+031E",
   "U+031F","U+0320","U+0321","U+0322","U+0323","U+0324","U+0325","U+0326","U+0327","U+0328",
   "U+0329","U+032A","U+032B","U+032C","U+032D","U+032E","U+032F","U+0330","U+0331","U+0332",
   "U+0333","U+0334","U+0335","U+0336","U+0337","U+0338","U+0339","U+033A","U+033B","U+033C",
   "U+033D","U+033E","U+033F","U+0340","U+0341","U+0342","U+0343","U+0344","U+0345","U+0346",
   "U+0347","U+0348","U+0349","U+034A","U+034B","U+034C","U+034D","U+034E","U+034F","U+0350",
   "U+0351","U+0352","U+0353","U+0354","U+0355","U+0356","U+0357","U+0358","U+0359","U+035A",
   "U+035B","U+035C","U+035D","U+035E","U+035F","U+0360","U+0361","U+0362","U+0363","U+0364",
   "U+0365","U+0366","U+0367","U+0368","U+0369","U+036A","U+036B","U+036C","U+036D","U+036E",
   "U+036F","U+0374","U+0375","U+037A","΄","΅","·","҃","҄","҅","҆","҇","҈","҉","U+0559","U+055F",
   "֑","֒","֓","֔","֕","֖","֗","֘","֙","֚","֛","֜","֝","֞","֟","֠","֡","֢","֣","֤","֥","֦","֧","֨",
   "֩","֪","֫","֬","֭","֮","֯","ְ","ֱ","ֲ","ֳ","ִ","ֵ","ֶ","ַ","ָ","ֹ","ֺ","ֻ","ּ","ֽ","ֿ","ׁ","ׂ",
   "ׄ","ׅ","ׇ","״","U+0600","U+0601","U+0602","U+0603","U+0604","U+0605","U+0610","U+0611","U+0612",
   "U+0613","U+0614","U+0615","U+0616","U+0617","U+0618","U+0619","U+061A","U+061C","U+0640",
   "U+064B","U+064C","U+064D","U+064E","U+064F","U+0650","U+0651","U+0652","U+0653","U+0654",
   "U+0655","U+0656","U+0657","U+0658","U+0659","U+065A","U+065B","U+065C","U+065D","U+065E",
   "U+065F","U+0670","ۖ","ۗ","ۘ","ۙ","ۚ","ۛ","ۜ","۝","۟","۠","ۡ","ۢ","ۣ","ۤ","ۥ","ۦ","ۧ","ۨ","۪",
   "۫","۬","ۭ","U+070F","U+0711","U+0730","U+0731","U+0732","U+0733","U+0734","U+0735","U+0736",
   "U+0737","U+0738","U+0739","U+073A","U+073B","U+073C","U+073D","U+073E","U+073F","U+0740",
   "U+0741","U+0742","U+0743","U+0744","U+0745","U+0746","U+0747","U+0748","U+0749","U+074A","ަ",
   "ާ","ި","ީ","ު","ޫ","ެ","ޭ","ޮ","ޯ","ް","߫","߬","߭","߮","߯","߰","߱","߲","߳","ߴ","ߵ","ߺ","߽",
   "U+0816","U+0817","U+0818","U+0819","U+081A","U+081B","U+081C","U+081D","U+081E","U+081F",
   "U+0820","U+0821","U+0822","U+0823","U+0824","U+0825","U+0826","U+0827","U+0828","U+0829",
   "U+082A","U+082B","U+082C","U+082D","U+0859","U+085A","U+085B","࢈","࢐","࢑","࢘","࢙","࢚","࢛","࢜",
   "࢝","࢞","࢟","ࣉ","࣊","࣋","࣌","࣍","࣎","࣏","࣐","࣑","࣒","࣓","ࣔ","ࣕ","ࣖ","ࣗ","ࣘ","ࣙ","ࣚ","ࣛ","ࣜ","ࣝ",
   "ࣞ","ࣟ","࣠","࣡","࣢","ࣣ","ࣤ","ࣥ","ࣦ","ࣧ","ࣨ","ࣩ","࣪","࣫","࣬","࣭","࣮","࣯","ࣰ","ࣱ","ࣲ","ࣳ","ࣴ","ࣵ",
   "ࣶ","ࣷ","ࣸ","ࣹ","ࣺ","ࣻ","ࣼ","ࣽ","ࣾ","ࣿ","U+0900","U+0901","U+0902","U+093A","U+093C","U+0941",
   "U+0942","U+0943","U+0944","U+0945","U+0946","U+0947","U+0948","U+094D","U+0951","U+0952",
   "U+0953","U+0954","U+0955","U+0956","U+0957","U+0962","U+0963","U+0971","ঁ","়","ু","ূ","ৃ","ৄ",
   "্","ৢ","ৣ","৾","U+0A01","U+0A02","U+0A3C","U+0A41","U+0A42","U+0A47","U+0A48","U+0A4B","U+0A4C",
   "U+0A4D","U+0A51","U+0A70","U+0A71","U+0A75","ઁ","ં","઼","ુ","ૂ","ૃ","ૄ","ૅ","ે","ૈ","્","ૢ","ૣ",
   "ૺ","ૻ","ૼ","૽","૾","૿","U+0B01","U+0B3C","U+0B3F","U+0B41","U+0B42","U+0B43","U+0B44","U+0B4D",
   "U+0B55","U+0B56","U+0B62","U+0B63","ஂ","ீ","்","U+0C00","U+0C04","U+0C3C","U+0C3E","U+0C3F",
   "U+0C40","U+0C46","U+0C47","U+0C48","U+0C4A","U+0C4B","U+0C4C","U+0C4D","U+0C55","U+0C56",
   "U+0C62","U+0C63","ಁ","಼","ಿ","ೆ","ೌ","್","ೢ","ೣ","U+0D00","U+0D01","U+0D3B","U+0D3C","U+0D41",
   "U+0D42","U+0D43","U+0D44","U+0D4D","U+0D62","U+0D63","ඁ","්","ි","ී","ු","ූ","U+0E31","U+0E34",
   "U+0E35","U+0E36","U+0E37","U+0E38","U+0E39","U+0E3A","U+0E46","U+0E47","U+0E48","U+0E49",
   "U+0E4A","U+0E4B","U+0E4C","U+0E4D","U+0E4E","ັ","ິ","ີ","ຶ","ື","ຸ","ູ","຺","ົ","ຼ","ໆ","່","້",
   "໊","໋","໌","ໍ","U+0F18","U+0F19","U+0F35","U+0F37","U+0F39","U+0F71","U+0F72","U+0F73","U+0F74",
   "U+0F75","U+0F76","U+0F77","U+0F78","U+0F79","U+0F7A","U+0F7B","U+0F7C","U+0F7D","U+0F7E","ྀ",
   "ཱྀ","ྂ","ྃ","྄","྆","྇","ྍ","ྎ","ྏ","ྐ","ྑ","ྒ","ྒྷ","ྔ","ྕ","ྖ","ྗ","ྙ","ྚ","ྛ","ྜ","ྜྷ","ྞ","ྟ",
   "ྠ","ྡ","ྡྷ","ྣ","ྤ","ྥ","ྦ","ྦྷ","ྨ","ྩ","ྪ","ྫ","ྫྷ","ྭ","ྮ","ྯ","ྰ","ྱ","ྲ","ླ","ྴ","ྵ","ྶ","ྷ",
   "ྸ","ྐྵ","ྺ","ྻ","ྼ","࿆","U+102D","U+102E","U+102F","U+1030","U+1032","U+1033","U+1034","U+1035",
   "U+1036","U+1037","U+1039","U+103A","U+103D","U+103E","U+1058","U+1059","U+105E","U+105F",
   "U+1060","U+1071","U+1072","U+1073","U+1074","ႂ","ႅ","ႆ","ႍ","ႝ","ჼ","U+135D","U+135E","U+135F",
   "U+1712","U+1713","U+1714","U+1732","U+1733","U+1752","U+1753","U+1772","U+1773","឴","឵","ិ","ី",
   "ឹ","ឺ","ុ","ូ","ួ","ំ","៉","៊","់","៌","៍","៎","៏","័","៑","្","៓","ៗ","៝","U+180B","U+180C",
   "U+180D","U+180E","U+180F","U+1843","ᢅ","ᢆ","ᢩ","U+1920","U+1921","U+1922","U+1927","U+1928",
   "U+1932","U+1939","U+193A","U+193B","U+1A17","U+1A18","U+1A1B","U+1A56","U+1A58","U+1A59",
   "U+1A5A","U+1A5B","U+1A5C","U+1A5D","U+1A5E","U+1A60","U+1A62","U+1A65","U+1A66","U+1A67",
   "U+1A68","U+1A69","U+1A6A","U+1A6B","U+1A6C","U+1A73","U+1A74","U+1A75","U+1A76","U+1A77",
   "U+1A78","U+1A79","U+1A7A","U+1A7B","U+1A7C","U+1A7F","ᪧ","᪰","᪱","᪲","᪳","᪴","᪵","᪶","᪷","᪸",
   "᪹","᪺","᪻","᪼","᪽","᪾","ᪿ","ᫀ","᫁","᫂","᫃","᫄","᫅","᫆","᫇","᫈","᫉","᫊","᫋","ᫌ","ᫍ","ᫎ","U+1B00",
   "U+1B01","U+1B02","U+1B03","U+1B34","U+1B36","U+1B37","U+1B38","U+1B39","U+1B3A","U+1B3C",
   "U+1B42","U+1B6B","U+1B6C","U+1B6D","U+1B6E","U+1B6F","U+1B70","U+1B71","U+1B72","U+1B73","ᮀ",
   "ᮁ","ᮢ","ᮣ","ᮤ","ᮥ","ᮨ","ᮩ","᮫","ᮬ","ᮭ","᯦","ᯨ","ᯩ","ᯭ","ᯯ","ᯰ","ᯱ","U+1C2C","U+1C2D","U+1C2E",
   "U+1C2F","U+1C30","U+1C31","U+1C32","U+1C33","U+1C36","U+1C37","U+1C78","U+1C79","U+1C7A",
   "U+1C7B","U+1C7C","U+1C7D","᳐","᳑","᳒","᳔","᳕","᳖","᳗","᳘","᳙","᳚","᳛","᳜","᳝","᳞","᳟","᳠","᳢",
   "᳣","᳤","᳥","᳦","᳧","᳨","᳭","᳴","᳸","᳹","U+1D2C","U+1D2D","U+1D2E","U+1D2F","U+1D30","U+1D31",
   "U+1D32","U+1D33","U+1D34","U+1D35","U+1D36","U+1D37","U+1D38","U+1D39","U+1D3A","U+1D3B",
   "U+1D3C","U+1D3D","U+1D3E","U+1D3F","U+1D40","U+1D41","U+1D42","U+1D43","U+1D44","U+1D45",
   "U+1D46","U+1D47","U+1D48","U+1D49","U+1D4A","U+1D4B","U+1D4C","U+1D4D","U+1D4E","U+1D4F",
   "U+1D50","U+1D51","U+1D52","U+1D53","U+1D54","U+1D55","U+1D56","U+1D57","U+1D58","U+1D59",
   "U+1D5A","U+1D5B","U+1D5C","U+1D5D","U+1D5E","U+1D5F","U+1D60","U+1D61","U+1D62","U+1D63",
   "U+1D64","U+1D65","U+1D66","U+1D67","U+1D68","U+1D69","U+1D6A","U+1D78","ᶛ","ᶜ","ᶝ","ᶞ","ᶟ","ᶠ",
   "ᶡ","ᶢ","ᶣ","ᶤ","ᶥ","ᶦ","ᶧ","ᶨ","ᶩ","ᶪ","ᶫ","ᶬ","ᶭ","ᶮ","ᶯ","ᶰ","ᶱ","ᶲ","ᶳ","ᶴ","ᶵ","ᶶ","ᶷ","ᶸ",
   "ᶹ","ᶺ","ᶻ","ᶼ","ᶽ","ᶾ","ᶿ","᷀","᷁","᷂","᷃","᷄","᷅","᷆","᷇","᷈","᷉","᷊","᷋","᷌","᷍","᷎","᷏","᷐",
   "᷑","᷒","ᷓ","ᷔ","ᷕ","ᷖ","ᷗ","ᷘ","ᷙ","ᷚ","ᷛ","ᷜ","ᷝ","ᷞ","ᷟ","ᷠ","ᷡ","ᷢ","ᷣ","ᷤ","ᷥ","ᷦ","ᷧ","ᷨ",
   "ᷩ","ᷪ","ᷫ","ᷬ","ᷭ","ᷮ","ᷯ","ᷰ","ᷱ","ᷲ","ᷳ","ᷴ","᷵","᷶","᷷","᷸","᷹","᷺","᷻","᷼","᷽","᷾","᷿","᾽",
   "᾿","῀","῁","῍","῎","῏","῝","῞","῟","῭","΅","`","´","῾","U+200B","U+200C","U+200D","U+200E",
   "U+200F","U+2018","U+2019","U+2024","U+2027","U+202A","U+202B","U+202C","U+202D","U+202E",
   "U+2060","U+2061","U+2062","U+2063","U+2064","U+2066","U+2067","U+2068","U+2069","U+206A",
   "U+206B","U+206C","U+206D","U+206E","U+206F","U+2071","U+207F","ₐ","ₑ","ₒ","ₓ","ₔ","ₕ","ₖ","ₗ",
   "ₘ","ₙ","ₚ","ₛ","ₜ","⃐","⃑","⃒","⃓","⃔","⃕","⃖","⃗","⃘","⃙","⃚","⃛","⃜","⃝","⃞","⃟","⃠","⃡","⃢",
   "⃣","⃤","⃥","⃦","⃧","⃨","⃩","⃪","⃫","⃬","⃭","⃮","⃯","⃰","U+2C7C","U+2C7D","⳯","⳰","⳱","U+2D6F",
   "U+2D7F","ⷠ","ⷡ","ⷢ","ⷣ","ⷤ","ⷥ","ⷦ","ⷧ","ⷨ","ⷩ","ⷪ","ⷫ","ⷬ","ⷭ","ⷮ","ⷯ","ⷰ","ⷱ","ⷲ","ⷳ","ⷴ","ⷵ",
   "ⷶ","ⷷ","ⷸ","ⷹ","ⷺ","ⷻ","ⷼ","ⷽ","ⷾ","ⷿ","U+2E2F","U+3005","U+302A","U+302B","U+302C","U+302D",
   "U+3031","U+3032","U+3033","U+3034","U+3035","U+303B","゙","゚","゛","゜","ゝ","ゞ","ー","ヽ","ヾ",
   "U+A015","ꓸ","ꓹ","ꓺ","ꓻ","ꓼ","ꓽ","U+A60C","U+A66F","U+A670","U+A671","U+A672","U+A674","U+A675",
   "U+A676","U+A677","U+A678","U+A679","U+A67A","U+A67B","U+A67C","U+A67D","U+A67F","ꚜ","ꚝ","ꚞ","ꚟ",
   "꛰","꛱","U+A700","U+A701","U+A702","U+A703","U+A704","U+A705","U+A706","U+A707","U+A708",
   "U+A709","U+A70A","U+A70B","U+A70C","U+A70D","U+A70E","U+A70F","U+A710","U+A711","U+A712",
   "U+A713","U+A714","U+A715","U+A716","U+A717","U+A718","U+A719","U+A71A","U+A71B","U+A71C",
   "U+A71D","U+A71E","U+A71F","U+A720","U+A721","U+A770","ꞈ","꞉","꞊","ꟲ","ꟳ","ꟴ","ꟸ","ꟹ","U+A802",
   "U+A806","U+A80B","U+A825","U+A826","U+A82C","꣄","ꣅ","꣠","꣡","꣢","꣣","꣤","꣥","꣦","꣧","꣨","꣩","꣪",
   "꣫","꣬","꣭","꣮","꣯","꣰","꣱","ꣿ","U+A926","U+A927","U+A928","U+A929","U+A92A","U+A92B","U+A92C",
   "U+A92D","U+A947","U+A948","U+A949","U+A94A","U+A94B","U+A94C","U+A94D","U+A94E","U+A94F",
   "U+A950","U+A951","ꦀ","ꦁ","ꦂ","꦳","ꦶ","ꦷ","ꦸ","ꦹ","ꦼ","ꦽ","ꧏ","ꧥ","ꧦ","U+AA29","U+AA2A","U+AA2B",
   "U+AA2C","U+AA2D","U+AA2E","U+AA31","U+AA32","U+AA35","U+AA36","U+AA43","U+AA4C","U+AA70",
   "U+AA7C","ꪰ","ꪲ","ꪳ","ꪴ","ꪷ","ꪸ","ꪾ","꪿","꫁","ꫝ","ꫬ","ꫭ","ꫳ","ꫴ","꫶","U+AB5B","U+AB5C","U+AB5D",
   "U+AB5E","U+AB5F","U+AB69","U+AB6A","U+AB6B","ꯥ","ꯨ","꯭","U+FB1E","﮲","﮳","﮴","﮵","﮶","﮷","﮸",
   "﮹","﮺","﮻","﮼","﮽","﮾","﮿","﯀","﯁","﯂","U+FE00","U+FE01","U+FE02","U+FE03","U+FE04","U+FE05",
   "U+FE06","U+FE07","U+FE08","U+FE09","U+FE0A","U+FE0B","U+FE0C","U+FE0D","U+FE0E","U+FE0F",
   "U+FE13","U+FE20","U+FE21","U+FE22","U+FE23","U+FE24","U+FE25","U+FE26","U+FE27","U+FE28",
   "U+FE29","U+FE2A","U+FE2B","U+FE2C","U+FE2D","U+FE2E","U+FE2F","U+FE52","U+FE55","﻿","U+FF07",
   "U+FF0E","U+FF1A","U+FF3E","U+FF40","U+FF70","ﾞ","ﾟ","￣","￹","￺","￻","U+101FD","U+102E0",
   "U+10376","U+10377","U+10378","U+10379","U+1037A","U+10780","U+10781","U+10782","U+10783",
   "U+10784","U+10785","U+10787","U+10788","U+10789","U+1078A","U+1078B","U+1078C","U+1078D",
   "U+1078E","U+1078F","U+10790","U+10791","U+10792","U+10793","U+10794","U+10795","U+10796",
   "U+10797","U+10798","U+10799","U+1079A","U+1079B","U+1079C","U+1079D","U+1079E","U+1079F",
   "U+107A0","U+107A1","U+107A2","U+107A3","U+107A4","U+107A5","U+107A6","U+107A7","U+107A8",
   "U+107A9","U+107AA","U+107AB","U+107AC","U+107AD","U+107AE","U+107AF","U+107B0","U+107B2",
   "U+107B3","U+107B4","U+107B5","U+107B6","U+107B7","U+107B8","U+107B9","U+107BA","U+10A01",
   "U+10A02","U+10A03","U+10A05","U+10A06","U+10A0C","U+10A0D","U+10A0E","U+10A0F","U+10A38",
   "U+10A39","U+10A3A","U+10A3F","U+10AE5","U+10AE6","U+10D24","U+10D25","U+10D26","U+10D27",
   "U+10EAB","U+10EAC","U+10F46","U+10F47","U+10F48","U+10F49","U+10F4A","U+10F4B","U+10F4C",
   "U+10F4D","U+10F4E","U+10F4F","U+10F50","U+10F82","U+10F83","U+10F84","U+10F85","U+11001",
   "U+11038","U+11039","U+1103A","U+1103B","U+1103C","U+1103D","U+1103E","U+1103F","U+11040",
   "U+11041","U+11042","U+11043","U+11044","U+11045","U+11046","U+11070","U+11073","U+11074",
   "U+1107F","U+11080","U+11081","U+110B3","U+110B4","U+110B5","U+110B6","U+110B9","U+110BA",
   "U+110BD","U+110C2","U+110CD","U+11100","U+11101","U+11102","U+11127","U+11128","U+11129",
   "U+1112A","U+1112B","U+1112D","U+1112E","U+1112F","U+11130","U+11131","U+11132","U+11133",
   "U+11134","U+11173","U+11180","U+11181","U+111B6","U+111B7","U+111B8","U+111B9","U+111BA",
   "U+111BB","U+111BC","U+111BD","U+111BE","U+111C9","U+111CA","U+111CB","U+111CC","U+111CF",
   "U+1122F","U+11230","U+11231","U+11234","U+11236","U+11237","U+1123E","U+112DF","U+112E3",
   "U+112E4","U+112E5","U+112E6","U+112E7","U+112E8","U+112E9","U+112EA","U+11300","U+11301",
   "U+1133B","U+1133C","U+11340","U+11366","U+11367","U+11368","U+11369","U+1136A","U+1136B",
   "U+1136C","U+11370","U+11371","U+11372","U+11373","U+11374","U+11438","U+11439","U+1143A",
   "U+1143B","U+1143C","U+1143D","U+1143E","U+1143F","U+11442","U+11443","U+11444","U+11446",
   "U+1145E","U+114B3","U+114B4","U+114B5","U+114B6","U+114B7","U+114B8","U+114BA","U+114BF",
   "U+114C0","U+114C2","U+114C3","U+115B2","U+115B3","U+115B4","U+115B5","U+115BC","U+115BD",
   "U+115BF","U+115C0","U+115DC","U+115DD","U+11633","U+11634","U+11635","U+11636","U+11637",
   "U+11638","U+11639","U+1163A","U+1163D","U+1163F","U+11640","U+116AB","U+116AD","U+116B0",
   "U+116B1","U+116B2","U+116B3","U+116B4","U+116B5","U+116B7","U+1171D","U+1171E","U+1171F",
   "U+11722","U+11723","U+11724","U+11725","U+11727","U+11728","U+11729","U+1172A","U+1172B",
   "U+1182F","U+11830","U+11831","U+11832","U+11833","U+11834","U+11835","U+11836","U+11837",
   "U+11839","U+1183A","U+1193B","U+1193C","U+1193E","U+11943","U+119D4","U+119D5","U+119D6",
   "U+119D7","U+119DA","U+119DB","U+119E0","U+11A01","U+11A02","U+11A03","U+11A04","U+11A05",
   "U+11A06","U+11A07","U+11A08","U+11A09","U+11A0A","U+11A33","U+11A34","U+11A35","U+11A36",
   "U+11A37","U+11A38","U+11A3B","U+11A3C","U+11A3D","U+11A3E","U+11A47","U+11A51","U+11A52",
   "U+11A53","U+11A54","U+11A55","U+11A56","U+11A59","U+11A5A","U+11A5B","U+11A8A","U+11A8B",
   "U+11A8C","U+11A8D","U+11A8E","U+11A8F","U+11A90","U+11A91","U+11A92","U+11A93","U+11A94",
   "U+11A95","U+11A96","U+11A98","U+11A99","U+11C30","U+11C31","U+11C32","U+11C33","U+11C34",
   "U+11C35","U+11C36","U+11C38","U+11C39","U+11C3A","U+11C3B","U+11C3C","U+11C3D","U+11C3F",
   "U+11C92","U+11C93","U+11C94","U+11C95","U+11C96","U+11C97","U+11C98","U+11C99","U+11C9A",
   "U+11C9B","U+11C9C","U+11C9D","U+11C9E","U+11C9F","U+11CA0","U+11CA1","U+11CA2","U+11CA3",
   "U+11CA4","U+11CA5","U+11CA6","U+11CA7","U+11CAA","U+11CAB","U+11CAC","U+11CAD","U+11CAE",
   "U+11CAF","U+11CB0","U+11CB2","U+11CB3","U+11CB5","U+11CB6","U+11D31","U+11D32","U+11D33",
   "U+11D34","U+11D35","U+11D36","U+11D3A","U+11D3C","U+11D3D","U+11D3F","U+11D40","U+11D41",
   "U+11D42","U+11D43","U+11D44","U+11D45","U+11D47","U+11D90","U+11D91","U+11D95","U+11D97",
   "U+11EF3","U+11EF4","U+13430","U+13431","U+13432","U+13433","U+13434","U+13435","U+13436",
   "U+13437","U+13438","U+16AF0","U+16AF1","U+16AF2","U+16AF3","U+16AF4","U+16B30","U+16B31",
   "U+16B32","U+16B33","U+16B34","U+16B35","U+16B36","U+16B40","U+16B41","U+16B42","U+16B43",
   "U+16F4F","U+16F8F","U+16F90","U+16F91","U+16F92","U+16F93","U+16F94","U+16F95","U+16F96",
   "U+16F97","U+16F98","U+16F99","U+16F9A","U+16F9B","U+16F9C","U+16F9D","U+16F9E","U+16F9F",
   "U+16FE0","U+16FE1","U+16FE3","U+16FE4","U+1AFF0","U+1AFF1","U+1AFF2","U+1AFF3","U+1AFF5",
   "U+1AFF6","U+1AFF7","U+1AFF8","U+1AFF9","U+1AFFA","U+1AFFB","U+1AFFD","U+1AFFE","U+1BC9D",
   "U+1BC9E","U+1BCA0","U+1BCA1","U+1BCA2","U+1BCA3","U+1CF00","U+1CF01","U+1CF02","U+1CF03",
   "U+1CF04","U+1CF05","U+1CF06","U+1CF07","U+1CF08","U+1CF09","U+1CF0A","U+1CF0B","U+1CF0C",
   "U+1CF0D","U+1CF0E","U+1CF0F","U+1CF10","U+1CF11","U+1CF12","U+1CF13","U+1CF14","U+1CF15",
   "U+1CF16","U+1CF17","U+1CF18","U+1CF19","U+1CF1A","U+1CF1B","U+1CF1C","U+1CF1D","U+1CF1E",
   "U+1CF1F","U+1CF20","U+1CF21","U+1CF22","U+1CF23","U+1CF24","U+1CF25","U+1CF26","U+1CF27",
   "U+1CF28","U+1CF29","U+1CF2A","U+1CF2B","U+1CF2C","U+1CF2D","U+1CF30","U+1CF31","U+1CF32",
   "U+1CF33","U+1CF34","U+1CF35","U+1CF36","U+1CF37","U+1CF38","U+1CF39","U+1CF3A","U+1CF3B",
   "U+1CF3C","U+1CF3D","U+1CF3E","U+1CF3F","U+1CF40","U+1CF41","U+1CF42","U+1CF43","U+1CF44",
   "U+1CF45","U+1CF46","U+1D167","U+1D168","U+1D169","U+1D173","U+1D174","U+1D175","U+1D176",
   "U+1D177","U+1D178","U+1D179","U+1D17A","U+1D17B","U+1D17C","U+1D17D","U+1D17E","U+1D17F",
   "U+1D180","U+1D181","U+1D182","U+1D185","U+1D186","U+1D187","U+1D188","U+1D189","U+1D18A",
   "U+1D18B","U+1D1AA","U+1D1AB","U+1D1AC","U+1D1AD","U+1D242","U+1D243","U+1D244","U+1DA00",
   "U+1DA01","U+1DA02","U+1DA03","U+1DA04","U+1DA05","U+1DA06","U+1DA07","U+1DA08","U+1DA09",
   "U+1DA0A","U+1DA0B","U+1DA0C","U+1DA0D","U+1DA0E","U+1DA0F","U+1DA10","U+1DA11","U+1DA12",
   "U+1DA13","U+1DA14","U+1DA15","U+1DA16","U+1DA17","U+1DA18","U+1DA19","U+1DA1A","U+1DA1B",
   "U+1DA1C","U+1DA1D","U+1DA1E","U+1DA1F","U+1DA20","U+1DA21","U+1DA22","U+1DA23","U+1DA24",
   "U+1DA25","U+1DA26","U+1DA27","U+1DA28","U+1DA29","U+1DA2A","U+1DA2B","U+1DA2C","U+1DA2D",
   "U+1DA2E","U+1DA2F","U+1DA30","U+1DA31","U+1DA32","U+1DA33","U+1DA34","U+1DA35","U+1DA36",
   "U+1DA3B","U+1DA3C","U+1DA3D","U+1DA3E","U+1DA3F","U+1DA40","U+1DA41","U+1DA42","U+1DA43",
   "U+1DA44","U+1DA45","U+1DA46","U+1DA47","U+1DA48","U+1DA49","U+1DA4A","U+1DA4B","U+1DA4C",
   "U+1DA4D","U+1DA4E","U+1DA4F","U+1DA50","U+1DA51","U+1DA52","U+1DA53","U+1DA54","U+1DA55",
   "U+1DA56","U+1DA57","U+1DA58","U+1DA59","U+1DA5A","U+1DA5B","U+1DA5C","U+1DA5D","U+1DA5E",
   "U+1DA5F","U+1DA60","U+1DA61","U+1DA62","U+1DA63","U+1DA64","U+1DA65","U+1DA66","U+1DA67",
   "U+1DA68","U+1DA69","U+1DA6A","U+1DA6B","U+1DA6C","U+1DA75","U+1DA84","U+1DA9B","U+1DA9C",
   "U+1DA9D","U+1DA9E","U+1DA9F","U+1DAA1","U+1DAA2","U+1DAA3","U+1DAA4","U+1DAA5","U+1DAA6",
   "U+1DAA7","U+1DAA8","U+1DAA9","U+1DAAA","U+1DAAB","U+1DAAC","U+1DAAD","U+1DAAE","U+1DAAF",
   "U+1E000","U+1E001","U+1E002","U+1E003","U+1E004","U+1E005","U+1E006","U+1E008","U+1E009",
   "U+1E00A","U+1E00B","U+1E00C","U+1E00D","U+1E00E","U+1E00F","U+1E010","U+1E011","U+1E012",
   "U+1E013","U+1E014","U+1E015","U+1E016","U+1E017","U+1E018","U+1E01B","U+1E01C","U+1E01D",
   "U+1E01E","U+1E01F","U+1E020","U+1E021","U+1E023","U+1E024","U+1E026","U+1E027","U+1E028",
   "U+1E029","U+1E02A","U+1E130","U+1E131","U+1E132","U+1E133","U+1E134","U+1E135","U+1E136",
   "U+1E137","U+1E138","U+1E139","U+1E13A","U+1E13B","U+1E13C","U+1E13D","U+1E2AE","U+1E2EC",
   "U+1E2ED","U+1E2EE","U+1E2EF","U+1E8D0","U+1E8D1","U+1E8D2","U+1E8D3","U+1E8D4","U+1E8D5",
   "U+1E8D6","U+1E944","U+1E945","U+1E946","U+1E947","U+1E948","U+1E949","U+1E94A","U+1E94B",
   "U+1F3FB","U+1F3FC","U+1F3FD","U+1F3FE","U+1F3FF","U+E0001","U+E0020","U+E0021","U+E0022",
   "U+E0023","U+E0024","U+E0025","U+E0026","U+E0027","U+E0028","U+E0029","U+E002A","U+E002B",
   "U+E002C","U+E002D","U+E002E","U+E002F","U+E0030","U+E0031","U+E0032","U+E0033","U+E0034",
   "U+E0035","U+E0036","U+E0037","U+E0038","U+E0039","U+E003A","U+E003B","U+E003C","U+E003D",
   "U+E003E","U+E003F","U+E0040","U+E0041","U+E0042","U+E0043","U+E0044","U+E0045","U+E0046",
   "U+E0047","U+E0048","U+E0049","U+E004A","U+E004B","U+E004C","U+E004D","U+E004E","U+E004F",
   "U+E0050","U+E0051","U+E0052","U+E0053","U+E0054","U+E0055","U+E0056","U+E0057","U+E0058",
   "U+E0059","U+E005A","U+E005B","U+E005C","U+E005D","U+E005E","U+E005F","U+E0060","U+E0061",
   "U+E0062","U+E0063","U+E0064","U+E0065","U+E0066","U+E0067","U+E0068","U+E0069","U+E006A",
   "U+E006B","U+E006C","U+E006D","U+E006E","U+E006F","U+E0070","U+E0071","U+E0072","U+E0073",
   "U+E0074","U+E0075","U+E0076","U+E0077","U+E0078","U+E0079","U+E007A","U+E007B","U+E007C",
   "U+E007D","U+E007E","U+E007F","U+E0100","U+E0101","U+E0102","U+E0103","U+E0104","U+E0105",
   "U+E0106","U+E0107","U+E0108","U+E0109","U+E010A","U+E010B","U+E010C","U+E010D","U+E010E",
   "U+E010F","U+E0110","U+E0111","U+E0112","U+E0113","U+E0114","U+E0115","U+E0116","U+E0117",
   "U+E0118","U+E0119","U+E011A","U+E011B","U+E011C","U+E011D","U+E011E","U+E011F","U+E0120",
   "U+E0121","U+E0122","U+E0123","U+E0124","U+E0125","U+E0126","U+E0127","U+E0128","U+E0129",
   "U+E012A","U+E012B","U+E012C","U+E012D","U+E012E","U+E012F","U+E0130","U+E0131","U+E0132",
   "U+E0133","U+E0134","U+E0135","U+E0136","U+E0137","U+E0138","U+E0139","U+E013A","U+E013B",
   "U+E013C","U+E013D","U+E013E","U+E013F","U+E0140","U+E0141","U+E0142","U+E0143","U+E0144",
   "U+E0145","U+E0146","U+E0147","U+E0148","U+E0149","U+E014A","U+E014B","U+E014C","U+E014D",
   "U+E014E","U+E014F","U+E0150","U+E0151","U+E0152","U+E0153","U+E0154","U+E0155","U+E0156",
   "U+E0157","U+E0158","U+E0159","U+E015A","U+E015B","U+E015C","U+E015D","U+E015E","U+E015F",
   "U+E0160","U+E0161","U+E0162","U+E0163","U+E0164","U+E0165","U+E0166","U+E0167","U+E0168",
   "U+E0169","U+E016A","U+E016B","U+E016C","U+E016D","U+E016E","U+E016F","U+E0170","U+E0171",
   "U+E0172","U+E0173","U+E0174","U+E0175","U+E0176","U+E0177","U+E0178","U+E0179","U+E017A",
   "U+E017B","U+E017C","U+E017D","U+E017E","U+E017F","U+E0180","U+E0181","U+E0182","U+E0183",
   "U+E0184","U+E0185","U+E0186","U+E0187","U+E0188","U+E0189","U+E018A","U+E018B","U+E018C",
   "U+E018D","U+E018E","U+E018F","U+E0190","U+E0191","U+E0192","U+E0193","U+E0194","U+E0195",
   "U+E0196","U+E0197","U+E0198","U+E0199","U+E019A","U+E019B","U+E019C","U+E019D","U+E019E",
   "U+E019F","U+E01A0","U+E01A1","U+E01A2","U+E01A3","U+E01A4","U+E01A5","U+E01A6","U+E01A7",
   "U+E01A8","U+E01A9","U+E01AA","U+E01AB","U+E01AC","U+E01AD","U+E01AE","U+E01AF","U+E01B0",
   "U+E01B1","U+E01B2","U+E01B3","U+E01B4","U+E01B5","U+E01B6","U+E01B7","U+E01B8","U+E01B9",
   "U+E01BA","U+E01BB","U+E01BC","U+E01BD","U+E01BE","U+E01BF","U+E01C0","U+E01C1","U+E01C2",
   "U+E01C3","U+E01C4","U+E01C5","U+E01C6","U+E01C7","U+E01C8","U+E01C9","U+E01CA","U+E01CB",
   "U+E01CC","U+E01CD","U+E01CE","U+E01CF","U+E01D0","U+E01D1","U+E01D2","U+E01D3","U+E01D4",
   "U+E01D5","U+E01D6","U+E01D7","U+E01D8","U+E01D9","U+E01DA","U+E01DB","U+E01DC","U+E01DD",
   "U+E01DE","U+E01DF","U+E01E0","U+E01E1","U+E01E2","U+E01E3","U+E01E4","U+E01E5","U+E01E6",
   "U+E01E7","U+E01E8","U+E01E9","U+E01EA","U+E01EB","U+E01EC","U+E01ED","U+E01EE","U+E01EF"
  }

CASED ==
  {
   "A","B","C","D","E","F","G","H","I","J","K","L","M","N","O","P","Q","R","S","T","U","V","W","X",
   "Y","Z","a","b","c","d","e","f","g","h","i","j","k","l","m","n","o","p","q","r","s","t","u","v",
   "w","x","y","z","ª","µ","º","À","Á","Â","Ã","Ä","Å","Æ","Ç","È","É","Ê","Ë","Ì","Í","Î","Ï","Ð",
   "Ñ","Ò","Ó","Ô","Õ","Ö","Ø","Ù","Ú","Û","Ü","Ý","Þ","ß","à","á","â","ã","ä","å","æ","ç","è","é",
   "ê","ë","ì","í","î","ï","ð","ñ","ò","ó","ô","õ","ö","ø","ù","ú","û","ü","ý","þ","ÿ","U+0100",
   "U+0101","U+0102","U+0103","U+0104","U+0105","U+0106","U+0107","U+0108","U+0109","U+010A",
   "U+010B","U+010C","U+010D","U+010E","U+010F","U+0110","U+0111","U+0112","U+0113","U+0114",
   "U+0115","U+0116","U+0117","U+0118","U+0119","U+011A","U+011B","U+011C","U+011D","U+011E",
   "U+011F","U+0120","U+0121","U+0122","U+0123","U+0124","U+0125","U+0126","U+0127","U+0128",
   "U+0129","U+012A","U+012B","U+012C","U+012D","U+012E","U+012F","U+0130","U+0131","U+0132",
   "U+0133","U+0134","U+0135","U+0136","U+0137","U+0138","U+0139","U+013A","U+013B","U+013C",
   "U+013D","U+013E","U+013F","U+0140","U+0141","U+0142","U+0143","U+0144","U+0145","U+0146",
   "U+0147","U+0148","U+0149","U+014A","U+014B","U+014C","U+014D","U+014E","U+014F","U+0150",
   "U+0151","U+0152","U+0153","U+0154","U+0155","U+0156","U+0157","U+0158","U+0159","U+015A",
   "U+015B","U+015C","U+015D","U+015E","U+015F","U+0160","U+0161","U+0162","U+0163","U+0164",
   "U+0165","U+0166","U+0167","U+0168","U+0169","U+016A","U+016B","U+016C","U+016D","U+016E",
   "U+016F","U+0170","U+0171","U+0172","U+0173","U+0174","U+0175","U+0176","U+0177","U+0178",
   "U+0179","U+017A","U+017B","U+017C","U+017D","U+017E","U+017F","ƀ","Ɓ","Ƃ","ƃ","Ƅ","ƅ","Ɔ","Ƈ",
   "ƈ","Ɖ","Ɗ","Ƌ","ƌ","ƍ","Ǝ","Ə","Ɛ","Ƒ","ƒ","Ɠ","Ɣ","ƕ","Ɩ","Ɨ","Ƙ","ƙ","ƚ","ƛ","Ɯ","Ɲ","ƞ","Ɵ",
   "Ơ","ơ","Ƣ","ƣ","Ƥ","ƥ","Ʀ","Ƨ","ƨ","Ʃ","ƪ","ƫ","Ƭ","ƭ","Ʈ","Ư","ư","Ʊ","Ʋ","Ƴ","ƴ","Ƶ","ƶ","Ʒ",
   "Ƹ","ƹ","ƺ","Ƽ","ƽ","ƾ","ƿ","Ǆ","ǅ","ǆ","Ǉ","ǈ","ǉ","Ǌ","ǋ","ǌ","Ǎ","ǎ","Ǐ","ǐ","Ǒ","ǒ","Ǔ","ǔ",
   "Ǖ","ǖ","Ǘ","ǘ","Ǚ","ǚ","Ǜ","ǜ","ǝ","Ǟ","ǟ","Ǡ","ǡ","Ǣ","ǣ","Ǥ","ǥ","Ǧ","ǧ","Ǩ","ǩ","Ǫ","ǫ","Ǭ",
   "ǭ","Ǯ","ǯ","ǰ","Ǳ","ǲ","ǳ","Ǵ","ǵ","Ƕ","Ƿ","Ǹ","ǹ","Ǻ","ǻ","Ǽ","ǽ","Ǿ","ǿ","U+0200","U+0201",
   "U+0202","U+0203","U+0204","U+0205","U+0206","U+0207","U+0208","U+0209","U+020A","U+020B",
   "U+020C","U+020D","U+020E","U+020F","U+0210","U+0211","U+0212","U+0213","U+0214","U+0215",
   "U+0216","U+0217","U+0218","U+0219","U+021A","U+021B","U+021C","U+021D","U+021E","U+021F",
   "U+0220","U+0221","U+0222","U+0223","U+0224","U+0225","U+0226","U+0227","U+0228","U+0229",
   "U+022A","U+022B","U+022C","U+022D","U+022E","U+022F","U+0230","U+0231","U+0232","U+0233",
   "U+0234","U+0235","U+0236","U+0237","U+0238","U+0239","U+023A","U+023B","U+023C","U+023D",
   "U+023E","U+023F","U+0240","U+0241","U+0242","U+0243","U+0244","U+0245","U+0246","U+0247",
   "U+0248","U+0249","U+024A","U+024B","U+024C","U+024D","U+024E","U+024F","U+0250","U+0251",
   "U+0252","U+0253","U+0254","U+0255","U+0256","U+0257","U+0258","U+0259","U+025A","U+025B",
   "U+025C","U+025D","U+025E","U+025F","U+0260","U+0261","U+0262","U+0263","U+0264","U+0265",
   "U+0266","U+0267","U+0268","U+0269","U+026A","U+026B","U+026C","U+026D","U+026E","U+026F",
   "U+0270","U+0271","U+0272","U+0273","U+0274","U+0275","U+0276","U+0277","U+0278","U+0279",
   "U+027A","U+027B","U+027C","U+027D","U+027E","U+027F","ʀ","ʁ","ʂ","ʃ","ʄ","ʅ","ʆ","ʇ","ʈ","ʉ",
   "ʊ","ʋ","ʌ","ʍ","ʎ","ʏ","ʐ","ʑ","ʒ","ʓ","ʕ","ʖ","ʗ","ʘ","ʙ","ʚ","ʛ","ʜ","ʝ","ʞ","ʟ","ʠ","ʡ","ʢ",
   "ʣ","ʤ","ʥ","ʦ","ʧ","ʨ","ʩ","ʪ","ʫ","ʬ","ʭ","ʮ","ʯ","U+0370","U+0371","U+0372","U+0373","U+0376",
   "U+0377","U+037B","U+037C","U+037D","U+037F","Ά","Έ","Ή","Ί","Ό","Ύ","Ώ","ΐ","Α","Β","Γ","Δ","Ε",
   "Ζ","Η","Θ","Ι","Κ","Λ","Μ","Ν","Ξ","Ο","Π","Ρ","Σ","Τ","Υ","Φ","Χ","Ψ","Ω","Ϊ","Ϋ","ά","έ","ή",
   "ί","ΰ","α","β","γ","δ","ε","ζ","η","θ","ι","κ","λ","μ","ν","ξ","ο","π","ρ","ς","σ","τ","υ","φ",
   "χ","ψ","ω","ϊ","ϋ","ό","ύ","ώ","Ϗ","ϐ","ϑ","ϒ","ϓ","ϔ","ϕ","ϖ","ϗ","Ϙ","ϙ","Ϛ","ϛ","Ϝ","ϝ","Ϟ",
   "ϟ","Ϡ","ϡ","Ϣ","ϣ","Ϥ","ϥ","Ϧ","ϧ","Ϩ","ϩ","Ϫ","ϫ","Ϭ","ϭ","Ϯ","ϯ","ϰ","ϱ","ϲ","ϳ","ϴ","ϵ","Ϸ",
   "ϸ","Ϲ","Ϻ","ϻ","ϼ","Ͻ","Ͼ","Ͽ","U+0400","U+0401","U+0402","U+0403","U+0404","U+0405","U+0406",
   "U+0407","U+0408","U+0409","U+040A","U+040B","U+040C","U+040D","U+040E","U+040F","U+0410",
   "U+0411","U+0412","U+0413","U+0414","U+0415","U+0416","U+0417","U+0418","U+0419","U+041A",
   "U+041B","U+041C","U+041D","U+041E","U+041F","U+0420","U+0421","U+0422","U+0423","U+0424",
   "U+0425","U+0426","U+0427","U+0428","U+0429","U+042A","U+042B","U+042C","U+042D","U+042E",
   "U+042F","U+0430","U+0431","U+0432","U+0433","U+0434","U+0435","U+0436","U+0437","U+0438",
   "U+0439","U+043A","U+043B","U+043C","U+043D","U+043E","U+043F","U+0440","U+0441","U+0442",
   "U+0443","U+0444","U+0445","U+0446","U+0447","U+0448","U+0449","U+044A","U+044B","U+044C",
   "U+044D","U+044E","U+044F","U+0450","U+0451","U+0452","U+0453","U+0454","U+0455","U+0456",
   "U+0457","U+0458","U+0459","U+045A","U+045B","U+045C","U+045D","U+045E","U+045F","U+0460",
   "U+0461","U+0462","U+0463","U+0464","U+0465","U+0466","U+0467","U+0468","U+0469","U+046A",
   "U+046B","U+046C","U+046D","U+046E","U+046F","U+0470","U+0471","U+0472","U+0473","U+0474",
   "U+0475","U+0476","U+0477","U+0478","U+0479","U+047A","U+047B","U+047C","U+047D","U+047E",
   "U+047F","Ҁ","ҁ","Ҋ","ҋ","Ҍ","ҍ","Ҏ","ҏ","Ґ","ґ","Ғ","ғ","Ҕ","ҕ","Җ","җ","Ҙ","ҙ","Қ","қ","Ҝ","ҝ",
   "Ҟ","ҟ","Ҡ","ҡ","Ң","ң","Ҥ","ҥ","Ҧ","ҧ","Ҩ","ҩ","Ҫ","ҫ","Ҭ","ҭ","Ү","ү","Ұ","ұ","Ҳ","ҳ","Ҵ","ҵ",
   "Ҷ","ҷ","Ҹ","ҹ","Һ","һ","Ҽ","ҽ","Ҿ","ҿ","Ӏ","Ӂ","ӂ","Ӄ","ӄ","Ӆ","ӆ","Ӈ","ӈ","Ӊ","ӊ","Ӌ","ӌ","Ӎ",
   "ӎ","ӏ","Ӑ","ӑ","Ӓ","ӓ","Ӕ","ӕ","Ӗ","ӗ","Ә","ә","Ӛ","ӛ","Ӝ","ӝ","Ӟ","ӟ","Ӡ","ӡ","Ӣ","ӣ","Ӥ","ӥ",
   "Ӧ","ӧ","Ө","ө","Ӫ","ӫ","Ӭ","ӭ","Ӯ","ӯ","Ӱ","ӱ","Ӳ","ӳ","Ӵ","ӵ","Ӷ","ӷ","Ӹ","ӹ","Ӻ","ӻ","Ӽ","ӽ",
   "Ӿ","ӿ","U+0500","U+0501","U+0502","U+0503","U+0504","U+0505","U+0506","U+0507","U+0508",
   "U+0509","U+050A","U+050B","U+050C","U+050D","U+050E","U+050F","U+0510","U+0511","U+0512",
   "U+0513","U+0514","U+0515","U+0516","U+0517","U+0518","U+0519","U+051A","U+051B","U+051C",
   "U+051D","U+051E","U+051F","U+0520","U+0521","U+0522","U+0523","U+0524","U+0525","U+0526",
   "U+0527","U+0528","U+0529","U+052A","U+052B","U+052C","U+052D","U+052E","U+052F","U+0531",
   "U+0532","U+0533","U+0534","U+0535","U+0536","U+0537","U+0538","U+0539","U+053A","U+053B",
   "U+053C","U+053D","U+053E","U+053F","U+0540","U+0541","U+0542","U+0543","U+0544","U+0545",
   "U+0546","U+0547","U+0548","U+0549","U+054A","U+054B","U+054C","U+054D","U+054E","U+054F",
   "U+0550","U+0551","U+0552","U+0553","U+0554","U+0555","U+0556","U+0560","U+0561","U+0562",
   "U+0563","U+0564","U+0565","U+0566","U+0567","U+0568","U+0569","U+056A","U+056B","U+056C",
   "U+056D","U+056E","U+056F","U+0570","U+0571","U+0572","U+0573","U+0574","U+0575","U+0576",
   "U+0577","U+0578","U+0579","U+057A","U+057B","U+057C","U+057D","U+057E","U+057F","ր","ց","ւ","փ",
   "ք","օ","ֆ","և","ֈ","Ⴀ","Ⴁ","Ⴂ","Ⴃ","Ⴄ","Ⴅ","Ⴆ","Ⴇ","Ⴈ","Ⴉ","Ⴊ","Ⴋ","Ⴌ","Ⴍ","Ⴎ","Ⴏ","Ⴐ","Ⴑ","Ⴒ",
   "Ⴓ","Ⴔ","Ⴕ","Ⴖ","Ⴗ","Ⴘ","Ⴙ","Ⴚ","Ⴛ","Ⴜ","Ⴝ","Ⴞ","Ⴟ","Ⴠ","Ⴡ","Ⴢ","Ⴣ","Ⴤ","Ⴥ","Ⴧ","Ⴭ","ა","ბ","გ",
   "დ","ე","ვ","ზ","თ","ი","კ","ლ","მ","ნ","ო","პ","ჟ","რ","ს","ტ","უ","ფ","ქ","ღ","ყ","შ","ჩ","ც",
   "ძ","წ","ჭ","ხ","ჯ","ჰ","ჱ","ჲ","ჳ","ჴ","ჵ","ჶ","ჷ","ჸ","ჹ","ჺ","ჽ","ჾ","ჿ","Ꭰ","Ꭱ","Ꭲ","Ꭳ","Ꭴ",
   "Ꭵ","Ꭶ","Ꭷ","Ꭸ","Ꭹ","Ꭺ","Ꭻ","Ꭼ","Ꭽ","Ꭾ","Ꭿ","Ꮀ","Ꮁ","Ꮂ","Ꮃ","Ꮄ","Ꮅ","Ꮆ","Ꮇ","Ꮈ","Ꮉ","Ꮊ","Ꮋ","Ꮌ",
   "Ꮍ","Ꮎ","Ꮏ","Ꮐ","Ꮑ","Ꮒ","Ꮓ","Ꮔ","Ꮕ","Ꮖ","Ꮗ","Ꮘ","Ꮙ","Ꮚ","Ꮛ","Ꮜ","Ꮝ","Ꮞ","Ꮟ","Ꮠ","Ꮡ","Ꮢ","Ꮣ","Ꮤ",
   "Ꮥ","Ꮦ","Ꮧ","Ꮨ","Ꮩ","Ꮪ","Ꮫ","Ꮬ","Ꮭ","Ꮮ","Ꮯ","Ꮰ","Ꮱ","Ꮲ","Ꮳ","Ꮴ","Ꮵ","Ꮶ","Ꮷ","Ꮸ","Ꮹ","Ꮺ","Ꮻ","Ꮼ",
   "Ꮽ","Ꮾ","Ꮿ","Ᏸ","Ᏹ","Ᏺ","Ᏻ","Ᏼ","Ᏽ","ᏸ","ᏹ","ᏺ","ᏻ","ᏼ","ᏽ","ᲀ","ᲁ","ᲂ","ᲃ","ᲄ","ᲅ","ᲆ","ᲇ","ᲈ",
   "Ა","Ბ","Გ","Დ","Ე","Ვ","Ზ","Თ","Ი","Კ","Ლ","Მ","Ნ","Ო","Პ","Ჟ","Რ","Ს","Ტ","Უ","Ფ","Ქ","Ღ","Ყ",
   "Შ","Ჩ","Ც","Ძ","Წ","Ჭ","Ხ","Ჯ","Ჰ","Ჱ","Ჲ","Ჳ","Ჴ","Ჵ","Ჶ","Ჷ","Ჸ","Ჹ","Ჺ","Ჽ","Ჾ","Ჿ","U+1D00",
   "U+1D01","U+1D02","U+1D03","U+1D04","U+1D05","U+1D06","U+1D07","U+1D08","U+1D09","U+1D0A",
   "U+1D0B","U+1D0C","U+1D0D","U+1D0E","U+1D0F","U+1D10","U+1D11","U+1D12","U+1D13","U+1D14",
   "U+1D15","U+1D16","U+1D17","U+1D18","U+1D19","U+1D1A","U+1D1B","U+1D1C","U+1D1D","U+1D1E",
   "U+1D1F","U+1D20","U+1D21","U+1D22","U+1D23","U+1D24","U+1D25","U+1D26","U+1D27","U+1D28",
   "U+1D29","U+1D2A","U+1D2B","U+1D6B","U+1D6C","U+1D6D","U+1D6E","U+1D6F","U+1D70","U+1D71",
   "U+1D72","U+1D73","U+1D74","U+1D75","U+1D76","U+1D77","U+1D79","U+1D7A","U+1D7B","U+1D7C",
   "U+1D7D","U+1D7E","U+1D7F","ᶀ","ᶁ","ᶂ","ᶃ","ᶄ","ᶅ","ᶆ","ᶇ","ᶈ","ᶉ","ᶊ","ᶋ","ᶌ","ᶍ","ᶎ","ᶏ","ᶐ",
   "ᶑ","ᶒ","ᶓ","ᶔ","ᶕ","ᶖ","ᶗ","ᶘ","ᶙ","ᶚ","U+1E00","U+1E01","U+1E02","U+1E03","U+1E04","U+1E05",
   "U+1E06","U+1E07","U+1E08","U+1E09","U+1E0A","U+1E0B","U+1E0C","U+1E0D","U+1E0E","U+1E0F",
   "U+1E10","U+1E11","U+1E12","U+1E13","U+1E14","U+1E15","U+1E16","U+1E17","U+1E18","U+1E19",
   "U+1E1A","U+1E1B","U+1E1C","U+1E1D","U+1E1E","U+1E1F","U+1E20","U+1E21","U+1E22","U+1E23",
   "U+1E24","U+1E25","U+1E26","U+1E27","U+1E28","U+1E29","U+1E2A","U+1E2B","U+1E2C","U+1E2D",
   "U+1E2E","U+1E2F","U+1E30","U+1E31","U+1E32","U+1E33","U+1E34","U+1E35","U+1E36","U+1E37",
   "U+1E38","U+1E39","U+1E3A","U+1E3B","U+1E3C","U+1E3D","U+1E3E","U+1E3F","U+1E40","U+1E41",
   "U+1E42","U+1E43","U+1E44","U+1E45","U+1E46","U+1E47","U+1E48","U+1E49","U+1E4A","U+1E4B",
   "U+1E4C","U+1E4D","U+1E4E","U+1E4F","U+1E50","U+1E51","U+1E52","U+1E53","U+1E54","U+1E55",
   "U+1E56","U+1E57","U+1E58","U+1E59","U+1E5A","U+1E5B","U+1E5C","U+1E5D","U+1E5E","U+1E5F",
   "U+1E60","U+1E61","U+1E62","U+1E63","U+1E64","U+1E65","U+1E66","U+1E67","U+1E68","U+1E69",
   "U+1E6A","U+1E6B","U+1E6C","U+1E6D","U+1E6E","U+1E6F","U+1E70","U+1E71","U+1E72","U+1E73",
   "U+1E74","U+1E75","U+1E76","U+1E77","U+1E78","U+1E79","U+1E7A","U+1E7B","U+1E7C","U+1E7D",
   "U+1E7E","U+1E7F","Ẁ","ẁ","Ẃ","ẃ","Ẅ","ẅ","Ẇ","ẇ","Ẉ","ẉ","Ẋ","ẋ","Ẍ","ẍ","Ẏ","ẏ","Ẑ","ẑ","Ẓ",
   "ẓ","Ẕ","ẕ","ẖ","ẗ","ẘ","ẙ","ẚ","ẛ","ẜ","ẝ","ẞ","ẟ","Ạ","ạ","Ả","ả","Ấ","ấ","Ầ","ầ","Ẩ","ẩ","Ẫ",
   "ẫ","Ậ","ậ","Ắ","ắ","Ằ","ằ","Ẳ","ẳ","Ẵ","ẵ","Ặ","ặ","Ẹ","ẹ","Ẻ","ẻ","Ẽ","ẽ","Ế","ế","Ề","ề","Ể",
   "ể","Ễ","ễ","Ệ","ệ","Ỉ","ỉ","Ị","ị","Ọ","ọ","Ỏ","ỏ","Ố","ố","Ồ","ồ","Ổ","ổ","Ỗ","ỗ","Ộ","ộ","Ớ",
   "ớ","Ờ","ờ","Ở","ở","Ỡ","ỡ","Ợ","ợ","Ụ","ụ","Ủ","ủ","Ứ","ứ","Ừ","ừ","Ử","ử","Ữ","ữ","Ự","ự","Ỳ",
   "ỳ","Ỵ","ỵ","Ỷ","ỷ","Ỹ","ỹ","Ỻ","ỻ","Ỽ","ỽ","Ỿ","ỿ","U+1F00","U+1F01","U+1F02","U+1F03","U+1F04",
   "U+1F05","U+1F06","U+1F07","U+1F08","U+1F09","U+1F0A","U+1F0B","U+1F0C","U+1F0D","U+1F0E",
   "U+1F0F","U+1F10","U+1F11","U+1F12","U+1F13","U+1F14","U+1F15","U+1F18","U+1F19","U+1F1A",
   "U+1F1B","U+1F1C","U+1F1D","U+1F20","U+1F21","U+1F22","U+1F23","U+1F24","U+1F25","U+1F26",
   "U+1F27","U+1F28","U+1F29","U+1F2A","U+1F2B","U+1F2C","U+1F2D","U+1F2E","U+1F2F","U+1F30",
   "U+1F31","U+1F32","U+1F33","U+1F34","U+1F35","U+1F36","U+1F37","U+1F38","U+1F39","U+1F3A",
   "U+1F3B","U+1F3C","U+1F3D","U+1F3E","U+1F3F","U+1F40","U+1F41","U+1F42","U+1F43","U+1F44",
   "U+1F45","U+1F48","U+1F49","U+1F4A","U+1F4B","U+1F4C","U+1F4D","U+1F50","U+1F51","U+1F52",
   "U+1F53","U+1F54","U+1F55","U+1F56","U+1F57","U+1F59","U+1F5B","U+1F5D","U+1F5F","U+1F60",
   "U+1F61","U+1F62","U+1F63","U+1F64","U+1F65","U+1F66","U+1F67","U+1F68","U+1F69","U+1F6A",
   "U+1F6B","U+1F6C","U+1F6D","U+1F6E","U+1F6F","U+1F70","U+1F71","U+1F72","U+1F73","U+1F74",
   "U+1F75","U+1F76","U+1F77","U+1F78","U+1F79","U+1F7A","U+1F7B","U+1F7C","U+1F7D","ᾀ","ᾁ","ᾂ","ᾃ",
   "ᾄ","ᾅ","ᾆ","ᾇ","ᾈ","ᾉ","ᾊ","ᾋ","ᾌ","ᾍ","ᾎ","ᾏ","ᾐ","ᾑ","ᾒ","ᾓ","ᾔ","ᾕ","ᾖ","ᾗ","ᾘ","ᾙ","ᾚ","ᾛ",
   "ᾜ","ᾝ","ᾞ","ᾟ","ᾠ","ᾡ","ᾢ","ᾣ","ᾤ","ᾥ","ᾦ","ᾧ","ᾨ","ᾩ","ᾪ","ᾫ","ᾬ","ᾭ","ᾮ","ᾯ","ᾰ","ᾱ","ᾲ","ᾳ",
   "ᾴ","ᾶ","ᾷ","Ᾰ","Ᾱ","Ὰ","Ά","ᾼ","ι","ῂ","ῃ","ῄ","ῆ","ῇ","Ὲ","Έ","Ὴ","Ή","ῌ","ῐ","ῑ","ῒ","ΐ","ῖ",
   "ῗ","Ῐ","Ῑ","Ὶ","Ί","ῠ","ῡ","ῢ","ΰ","ῤ","ῥ","ῦ","ῧ","Ῠ","Ῡ","Ὺ","Ύ","Ῥ","ῲ","ῳ","ῴ","ῶ","ῷ","Ὸ",
   "Ό","Ὼ","Ώ","ῼ","U+2102","U+2107","U+210A","U+210B","U+210C","U+210D","U+210E","U+210F","U+2110",
   "U+2111","U+2112","U+2113","U+2115","U+2119","U+211A","U+211B","U+211C","U+211D","U+2124",
   "U+2126","U+2128","U+212A","U+212B","U+212C","U+212D","U+212F","U+2130","U+2131","U+2132",
   "U+2133","U+2134","U+2139","U+213C","U+213D","U+213E","U+213F","U+2145","U+2146","U+2147",
   "U+2148","U+2149","U+214E","U+2160","U+2161","U+2162","U+2163","U+2164","U+2165","U+2166",
   "U+2167","U+2168","U+2169","U+216A","U+216B","U+216C","U+216D","U+216E","U+216F","U+2170",
   "U+2171","U+2172","U+2173","U+2174","U+2175","U+2176","U+2177","U+2178","U+2179","U+217A",
   "U+217B","U+217C","U+217D","U+217E","U+217F","Ↄ","ↄ","Ⓐ","Ⓑ","Ⓒ","Ⓓ","Ⓔ","Ⓕ","Ⓖ","Ⓗ","Ⓘ","Ⓙ","Ⓚ",
   "Ⓛ","Ⓜ","Ⓝ","Ⓞ","Ⓟ","Ⓠ","Ⓡ","Ⓢ","Ⓣ","Ⓤ","Ⓥ","Ⓦ","Ⓧ","Ⓨ","Ⓩ","ⓐ","ⓑ","ⓒ","ⓓ","ⓔ","ⓕ","ⓖ","ⓗ","ⓘ",
   "ⓙ","ⓚ","ⓛ","ⓜ","ⓝ","ⓞ","ⓟ","ⓠ","ⓡ","ⓢ","ⓣ","ⓤ","ⓥ","ⓦ","ⓧ","ⓨ","ⓩ","U+2C00","U+2C01","U+2C02",
   "U+2C03","U+2C04","U+2C05","U+2C06","U+2C07","U+2C08","U+2C09","U+2C0A","U+2C0B","U+2C0C",
   "U+2C0D","U+2C0E","U+2C0F","U+2C10","U+2C11","U+2C12","U+2C13","U+2C14","U+2C15","U+2C16",
   "U+2C17","U+2C18","U+2C19","U+2C1A","U+2C1B","U+2C1C","U+2C1D","U+2C1E","U+2C1F","U+2C20",
   "U+2C21","U+2C22","U+2C23","U+2C24","U+2C25","U+2C26","U+2C27","U+2C28","U+2C29","U+2C2A",
   "U+2C2B","U+2C2C","U+2C2D","U+2C2E","U+2C2F","U+2C30","U+2C31","U+2C32","U+2C33","U+2C34",
   "U+2C35","U+2C36","U+2C37","U+2C38","U+2C39","U+2C3A","U+2C3B","U+2C3C","U+2C3D","U+2C3E",
   "U+2C3F","U+2C40","U+2C41","U+2C42","U+2C43","U+2C44","U+2C45","U+2C46","U+2C47","U+2C48",
   "U+2C49","U+2C4A","U+2C4B","U+2C4C","U+2C4D","U+2C4E","U+2C4F","U+2C50","U+2C51","U+2C52",
   "U+2C53","U+2C54","U+2C55","U+2C56","U+2C57","U+2C58","U+2C59","U+2C5A","U+2C5B","U+2C5C",
   "U+2C5D","U+2C5E","U+2C5F","U+2C60","U+2C61","U+2C62","U+2C63","U+2C64","U+2C65","U+2C66",
   "U+2C67","U+2C68","U+2C69","U+2C6A","U+2C6B","U+2C6C","U+2C6D","U+2C6E","U+2C6F","U+2C70",
   "U+2C71","U+2C72","U+2C73","U+2C74","U+2C75","U+2C76","U+2C77","U+2C78","U+2C79","U+2C7A",
   "U+2C7B","U+2C7E","U+2C7F","Ⲁ","ⲁ","Ⲃ","ⲃ","Ⲅ","ⲅ","Ⲇ","ⲇ","Ⲉ","ⲉ","Ⲋ","ⲋ","Ⲍ","ⲍ","Ⲏ","ⲏ","Ⲑ",
   "ⲑ","Ⲓ","ⲓ","Ⲕ","ⲕ","Ⲗ","ⲗ","Ⲙ","ⲙ","Ⲛ","ⲛ","Ⲝ","ⲝ","Ⲟ","ⲟ","Ⲡ","ⲡ","Ⲣ","ⲣ","Ⲥ","ⲥ","Ⲧ","ⲧ","Ⲩ",
   "ⲩ","Ⲫ","ⲫ","Ⲭ","ⲭ","Ⲯ","ⲯ","Ⲱ","ⲱ","Ⲳ","ⲳ","Ⲵ","ⲵ","Ⲷ","ⲷ","Ⲹ","ⲹ","Ⲻ","ⲻ","Ⲽ","ⲽ","Ⲿ","ⲿ","Ⳁ",
   "ⳁ","Ⳃ","ⳃ","Ⳅ","ⳅ","Ⳇ","ⳇ","Ⳉ","ⳉ","Ⳋ","ⳋ","Ⳍ","ⳍ","Ⳏ","ⳏ","Ⳑ","ⳑ","Ⳓ","ⳓ","Ⳕ","ⳕ","Ⳗ","ⳗ","Ⳙ",
   "ⳙ","Ⳛ","ⳛ","Ⳝ","ⳝ","Ⳟ","ⳟ","Ⳡ","ⳡ","Ⳣ","ⳣ","ⳤ","Ⳬ","ⳬ","Ⳮ","ⳮ","Ⳳ","ⳳ","U+2D00","U+2D01",
   "U+2D02","U+2D03","U+2D04","U+2D05","U+2D06","U+2D07","U+2D08","U+2D09","U+2D0A","U+2D0B",
   "U+2D0C","U+2D0D","U+2D0E","U+2D0F","U+2D10","U+2D11","U+2D12","U+2D13","U+2D14","U+2D15",
   "U+2D16","U+2D17","U+2D18","U+2D19","U+2D1A","U+2D1B","U+2D1C","U+2D1D","U+2D1E","U+2D1F",
   "U+2D20","U+2D21","U+2D22","U+2D23","U+2D24","U+2D25","U+2D27","U+2D2D","U+A640","U+A641",
   "U+A642","U+A643","U+A644","U+A645","U+A646","U+A647","U+A648","U+A649","U+A64A","U+A64B",
   "U+A64C","U+A64D","U+A64E","U+A64F","U+A650","U+A651","U+A652","U+A653","U+A654","U+A655",
   "U+A656","U+A657","U+A658","U+A659","U+A65A","U+A65B","U+A65C","U+A65D","U+A65E","U+A65F",
   "U+A660","U+A661","U+A662","U+A663","U+A664","U+A665","U+A666","U+A667","U+A668","U+A669",
   "U+A66A","U+A66B","U+A66C","U+A66D","Ꚁ","ꚁ","Ꚃ","ꚃ","Ꚅ","ꚅ","Ꚇ","ꚇ","Ꚉ","ꚉ","Ꚋ","ꚋ","Ꚍ","ꚍ","Ꚏ",
   "ꚏ","Ꚑ","ꚑ","Ꚓ","ꚓ","Ꚕ","ꚕ","Ꚗ","ꚗ","Ꚙ","ꚙ","Ꚛ","ꚛ","U+A722","U+A723","U+A724","U+A725","U+A726",
   "U+A727","U+A728","U+A729","U+A72A","U+A72B","U+A72C","U+A72D","U+A72E","U+A72F","U+A730",
   "U+A731","U+A732","U+A733","U+A734","U+A735","U+A736","U+A737","U+A738","U+A739","U+A73A",
   "U+A73B","U+A73C","U+A73D","U+A73E","U+A73F","U+A740","U+A741","U+A742","U+A743","U+A744",
   "U+A745","U+A746","U+A747","U+A748","U+A749","U+A74A","U+A74B","U+A74C","U+A74D","U+A74E",
   "U+A74F","U+A750","U+A751","U+A752","U+A753","U+A754","U+A755","U+A756","U+A757","U+A758",
   "U+A759","U+A75A","U+A75B","U+A75C","U+A75D","U+A75E","U+A75F","U+A760","U+A761","U+A762",
   "U+A763","U+A764","U+A765","U+A766","U+A767","U+A768","U+A769","U+A76A","U+A76B","U+A76C",
   "U+A76D","U+A76E","U+A76F","U+A771","U+A772","U+A773","U+A774","U+A775","U+A776","U+A777",
   "U+A778","U+A779","U+A77A","U+A77B","U+A77C","U+A77D","U+A77E","U+A77F","Ꞁ","ꞁ","Ꞃ","ꞃ","Ꞅ","ꞅ",
   "Ꞇ","ꞇ","Ꞌ","ꞌ","Ɥ","ꞎ","Ꞑ","ꞑ","Ꞓ","ꞓ","ꞔ","ꞕ","Ꞗ","ꞗ","Ꞙ","ꞙ","Ꞛ","ꞛ","Ꞝ","ꞝ","Ꞟ","ꞟ","Ꞡ","ꞡ",
   "Ꞣ","ꞣ","Ꞥ","ꞥ","Ꞧ","ꞧ","Ꞩ","ꞩ","Ɦ","Ɜ","Ɡ","Ɬ","Ɪ","ꞯ","Ʞ","Ʇ","Ʝ","Ꭓ","Ꞵ","ꞵ","Ꞷ","ꞷ","Ꞹ","ꞹ",
   "Ꞻ","ꞻ","Ꞽ","ꞽ","Ꞿ","ꞿ","Ꟁ","ꟁ","Ꟃ","ꟃ","Ꞔ","Ʂ","Ᶎ","Ꟈ","ꟈ","Ꟊ","ꟊ","Ꟑ","ꟑ","ꟓ","ꟕ","Ꟗ","ꟗ","Ꟙ",
   "ꟙ","Ꟶ","ꟶ","ꟺ","U+AB30","U+AB31","U+AB32","U+AB33","U+AB34","U+AB35","U+AB36","U+AB37","U+AB38",
   "U+AB39","U+AB3A","U+AB3B","U+AB3C","U+AB3D","U+AB3E","U+AB3F","U+AB40","U+AB41","U+AB42",
   "U+AB43","U+AB44","U+AB45","U+AB46","U+AB47","U+AB48","U+AB49","U+AB4A","U+AB4B","U+AB4C",
   "U+AB4D","U+AB4E","U+AB4F","U+AB50","U+AB51","U+AB52","U+AB53","U+AB54","U+AB55","U+AB56",
   "U+AB57","U+AB58","U+AB59","U+AB5A","U+AB60","U+AB61","U+AB62","U+AB63","U+AB64","U+AB65",
   "U+AB66","U+AB67","U+AB68","U+AB70","U+AB71","U+AB72","U+AB73","U+AB74","U+AB75","U+AB76",
   "U+AB77","U+AB78","U+AB79","U+AB7A","U+AB7B","U+AB7C","U+AB7D","U+AB7E","U+AB7F","ꮀ","ꮁ","ꮂ","ꮃ",
   "ꮄ","ꮅ","ꮆ","ꮇ","ꮈ","ꮉ","ꮊ","ꮋ","ꮌ","ꮍ","ꮎ","ꮏ","ꮐ","ꮑ","ꮒ","ꮓ","ꮔ","ꮕ","ꮖ","ꮗ","ꮘ","ꮙ","ꮚ","ꮛ",
   "ꮜ","ꮝ","ꮞ","ꮟ","ꮠ","ꮡ","ꮢ","ꮣ","ꮤ","ꮥ","ꮦ","ꮧ","ꮨ","ꮩ","ꮪ","ꮫ","ꮬ","ꮭ","ꮮ","ꮯ","ꮰ","ꮱ","ꮲ","ꮳ",
   "ꮴ","ꮵ","ꮶ","ꮷ","ꮸ","ꮹ","ꮺ","ꮻ","ꮼ","ꮽ","ꮾ","ꮿ","U+FB00","U+FB01","U+FB02","U+FB03","U+FB04",
   "U+FB05","U+FB06","U+FB13","U+FB14","U+FB15","U+FB16","U+FB17","U+FF21","U+FF22","U+FF23",
   "U+FF24","U+FF25","U+FF26","U+FF27","U+FF28","U+FF29","U+FF2A","U+FF2B","U+FF2C","U+FF2D",
   "U+FF2E","U+FF2F","U+FF30","U+FF31","U+FF32","U+FF33","U+FF34","U+FF35","U+FF36","U+FF37",
   "U+FF38","U+FF39","U+FF3A","U+FF41","U+FF42","U+FF43","U+FF44","U+FF45","U+FF46","U+FF47",
   "U+FF48","U+FF49","U+FF4A","U+FF4B","U+FF4C","U+FF4D","U+FF4E","U+FF4F","U+FF50","U+FF51",
   "U+FF52","U+FF53","U+FF54","U+FF55","U+FF56","U+FF57","U+FF58","U+FF59","U+FF5A","U+10400",
   "U+10401","U+10402","U+10403","U+10404","U+10405","U+10406","U+10407","U+10408","U+10409",
   "U+1040A","U+1040B","U+1040C","U+1040D","U+1040E","U+1040F","U+10410","U+10411","U+10412",
   "U+10413","U+10414","U+10415","U+10416","U+10417","U+10418","U+10419","U+1041A","U+1041B",
   "U+1041C","U+1041D","U+1041E","U+1041F","U+10420","U+10421","U+10422","U+10423","U+10424",
   "U+10425","U+10426","U+10427","U+10428","U+10429","U+1042A","U+1042B","U+1042C","U+1042D",
   "U+1042E","U+1042F","U+10430","U+10431","U+10432","U+10433","U+10434","U+10435","U+10436",
   "U+10437","U+10438","U+10439","U+1043A","U+1043B","U+1043C","U+1043D","U+1043E","U+1043F",
   "U+10440","U+10441","U+10442","U+10443","U+10444","U+10445","U+10446","U+10447","U+10448",
   "U+10449","U+1044A","U+1044B","U+1044C","U+1044D","U+1044E","U+1044F","U+104B0","U+104B1",
   "U+104B2","U+104B3","U+104B4","U+104B5","U+104B6","U+104B7","U+104B8","U+104B9","U+104BA",
   "U+104BB","U+104BC","U+104BD","U+104BE","U+104BF","U+104C0","U+104C1","U+104C2","U+104C3",
   "U+104C4","U+104C5","U+104C6","U+104C7","U+104C8","U+104C9","U+104CA","U+104CB","U+104CC",
   "U+104CD","U+104CE","U+104CF","U+104D0","U+104D1","U+104D2","U+104D3","U+104D8","U+104D9",
   "U+104DA","U+104DB","U+104DC","U+104DD","U+104DE","U+104DF","U+104E0","U+104E1","U+104E2",
   "U+104E3","U+104E4","U+104E5","U+104E6","U+104E7","U+104E8","U+104E9","U+104EA","U+104EB",
   "U+104EC","U+104ED","U+104EE","U+104EF","U+104F0","U+104F1","U+104F2","U+104F3","U+104F4",
   "U+104F5","U+104F6","U+104F7","U+104F8","U+104F9","U+104FA","U+104FB","U+10570","U+10571",
   "U+10572","U+10573","U+10574","U+10575","U+10576","U+10577","U+10578","U+10579","U+1057A",
   "U+1057C","U+1057D","U+1057E","U+1057F","U+10580","U+10581","U+10582","U+10583","U+10584",
   "U+10585","U+10586","U+10587","U+10588","U+10589","U+1058A","U+1058C","U+1058D","U+1058E",
   "U+1058F","U+10590","U+10591","U+10592","U+10594","U+10595","U+10597","U+10598","U+10599",
   "U+1059A","U+1059B","U+1059C","U+1059D","U+1059E","U+1059F","U+105A0","U+105A1","U+105A3",
   "U+105A4","U+105A5","U+105A6","U+105A7","U+105A8","U+105A9","U+105AA","U+105AB","U+105AC",
   "U+105AD","U+105AE","U+105AF","U+105B0","U+105B1","U+105B3","U+105B4","U+105B5","U+105B6",
   "U+105B7","U+105B8","U+105B9","U+105BB","U+105BC","U+10C80","U+10C81","U+10C82","U+10C83",
   "U+10C84","U+10C85","U+10C86","U+10C87","U+10C88","U+10C89","U+10C8A","U+10C8B","U+10C8C",
   "U+10C8D","U+10C8E","U+10C8F","U+10C90","U+10C91","U+10C92","U+10C93","U+10C94","U+10C95",
   "U+10C96","U+10C97","U+10C98","U+10C99","U+10C9A","U+10C9B","U+10C9C","U+10C9D","U+10C9E",
   "U+10C9F","U+10CA0","U+10CA1","U+10CA2","U+10CA3","U+10CA4","U+10CA5","U+10CA6","U+10CA7",
   "U+10CA8","U+10CA9","U+10CAA","U+10CAB","U+10CAC","U+10CAD","U+10CAE","U+10CAF","U+10CB0",
   "U+10CB1","U+10CB2","U+10CC0","U+10CC1","U+10CC2","U+10CC3","U+10CC4","U+10CC5","U+10CC6",
   "U+10CC7","U+10CC8","U+10CC9","U+10CCA","U+10CCB","U+10CCC","U+10CCD","U+10CCE","U+10CCF",
   "U+10CD0","U+10CD1","U+10CD2","U+10CD3","U+10CD4","U+10CD5","U+10CD6","U+10CD7","U+10CD8",
   "U+10CD9","U+10CDA","U+10CDB","U+10CDC","U+10CDD","U+10CDE","U+10CDF","U+10CE0","U+10CE1",
   "U+10CE2","U+10CE3","U+10CE4","U+10CE5","U+10CE6","U+10CE7","U+10CE8","U+10CE9","U+10CEA",
   "U+10CEB","U+10CEC","U+10CED","U+10CEE","U+10CEF","U+10CF0","U+10CF1","U+10CF2","U+118A0",
   "U+118A1","U+118A2","U+118A3","U+118A4","U+118A5","U+118A6","U+118A7","U+118A8","U+118A9",
   "U+118AA","U+118AB","U+118AC","U+118AD","U+118AE","U+118AF","U+118B0","U+118B1","U+118B2",
   "U+118B3","U+118B4","U+118B5","U+118B6","U+118B7","U+118B8","U+118B9","U+118BA","U+118BB",
   "U+118BC","U+118BD","U+118BE","U+118BF","U+118C0","U+118C1","U+118C2","U+118C3","U+118C4",
   "U+118C5","U+118C6","U+118C7","U+118C8","U+118C9","U+118CA","U+118CB","U+118CC","U+118CD",
   "U+118CE","U+118CF","U+118D0","U+118D1","U+118D2","U+118D3","U+118D4","U+118D5","U+118D6",
   "U+118D7","U+118D8","U+118D9","U+118DA","U+118DB","U+118DC","U+118DD","U+118DE","U+118DF",
   "U+16E40","U+16E41","U+16E42","U+16E43","U+16E44","U+16E45","U+16E46","U+16E47","U+16E48",
   "U+16E49","U+16E4A","U+16E4B","U+16E4C","U+16E4D","U+16E4E","U+16E4F","U+16E50","U+16E51",
   "U+16E52","U+16E53","U+16E54","U+16E55","U+16E56","U+16E57","U+16E58","U+16E59","U+16E5A",
   "U+16E5B","U+16E5C","U+16E5D","U+16E5E","U+16E5F","U+16E60","U+16E61","U+16E62","U+16E63",
   "U+16E64","U+16E65","U+16E66","U+16E67","U+16E68","U+16E69","U+16E6A","U+16E6B","U+16E6C",
   "U+16E6D","U+16E6E","U+16E6F","U+16E70","U+16E71","U+16E72","U+16E73","U+16E74","U+16E75",
   "U+16E76","U+16E77","U+16E78","U+16E79","U+16E7A","U+16E7B","U+16E7C","U+16E7D","U+16E7E",
   "U+16E7F","U+1D400","U+1D401","U+1D402","U+1D403","U+1D404","U+1D405","U+1D406","U+1D407",
   "U+1D408","U+1D409","U+1D40A","U+1D40B","U+1D40C","U+1D40D","U+1D40E","U+1D40F","U+1D410",
   "U+1D411","U+1D412","U+1D413","U+1D414","U+1D415","U+1D416","U+1D417","U+1D418","U+1D419",
   "U+1D41A","U+1D41B","U+1D41C","U+1D41D","U+1D41E","U+1D41F","U+1D420","U+1D421","U+1D422",
   "U+1D423","U+1D424","U+1D425","U+1D426","U+1D427","U+1D428","U+1D429","U+1D42A","U+1D42B",
   "U+1D42C","U+1D42D","U+1D42E","U+1D42F","U+1D430","U+1D431","U+1D432","U+1D433","U+1D434",
   "U+1D435","U+1D436","U+1D437","U+1D438","U+1D439","U+1D43A","U+1D43B","U+1D43C","U+1D43D",
   "U+1D43E","U+1D43F","U+1D440","U+1D441","U+1D442","U+1D443","U+1D444","U+1D445","U+1D446",
   "U+1D447","U+1D448","U+1D449","U+1D44A","U+1D44B","U+1D44C","U+1D44D","U+1D44E","U+1D44F",
   "U+1D450","U+1D451","U+1D452","U+1D453","U+1D454","U+1D456","U+1D457","U+1D458","U+1D459",
   "U+1D45A","U+1D45B","U+1D45C","U+1D45D","U+1D45E","U+1D45F","U+1D460","U+1D461","U+1D462",
   "U+1D463","U+1D464","U+1D465","U+1D466","U+1D467","U+1D468","U+1D469","U+1D46A","U+1D46B",
   "U+1D46C","U+1D46D","U+1D46E","U+1D46F","U+1D470","U+1D471","U+1D472","U+1D473","U+1D474",
   "U+1D475","U+1D476","U+1D477","U+1D478","U+1D479","U+1D47A","U+1D47B","U+1D47C","U+1D47D",
   "U+1D47E","U+1D47F","U+1D480","U+1D481","U+1D482","U+1D483","U+1D484","U+1D485","U+1D486",
   "U+1D487","U+1D488","U+1D489","U+1D48A","U+1D48B","U+1D48C","U+1D48D","U+1D48E","U+1D48F",
   "U+1D490","U+1D491","U+1D492","U+1D493","U+1D494","U+1D495","U+1D496","U+1D497","U+1D498",
   "U+1D499","U+1D49A","U+1D49B","U+1D49C","U+1D49E","U+1D49F","U+1D4A2","U+1D4A5","U+1D4A6",
   "U+1D4A9","U+1D4AA","U+1D4AB","U+1D4AC","U+1D4AE","U+1D4AF","U+1D4B0","U+1D4B1","U+1D4B2",
   "U+1D4B3","U+1D4B4","U+1D4B5","U+1D4B6","U+1D4B7","U+1D4B8","U+1D4B9","U+1D4BB","U+1D4BD",
   "U+1D4BE","U+1D4BF","U+1D4C0","U+1D4C1","U+1D4C2","U+1D4C3","U+1D4C5","U+1D4C6","U+1D4C7",
   "U+1D4C8","U+1D4C9","U+1D4CA","U+1D4CB","U+1D4CC","U+1D4CD","U+1D4CE","U+1D4CF","U+1D4D0",
   "U+1D4D1","U+1D4D2","U+1D4D3","U+1D4D4","U+1D4D5","U+1D4D6","U+1D4D7","U+1D4D8","U+1D4D9",
   "U+1D4DA","U+1D4DB","U+1D4DC","U+1D4DD","U+1D4DE","U+1D4DF","U+1D4E0","U+1D4E1","U+1D4E2",
   "U+1D4E3","U+1D4E4","U+1D4E5","U+1D4E6","U+1D4E7","U+1D4E8","U+1D4E9","U+1D4EA","U+1D4EB",
   "U+1D4EC","U+1D4ED","U+1D4EE","U+1D4EF","U+1D4F0","U+1D4F1","U+1D4F2","U+1D4F3","U+1D4F4",
   "U+1D4F5","U+1D4F6","U+1D4F7","U+1D4F8","U+1D4F9","U+1D4FA","U+1D4FB","U+1D4FC","U+1D4FD",
   "U+1D4FE","U+1D4FF","U+1D500","U+1D501","U+1D502","U+1D503","U+1D504","U+1D505","U+1D507",
   "U+1D508","U+1D509","U+1D50A","U+1D50D","U+1D50E","U+1D50F","U+1D510","U+1D511","U+1D512",
   "U+1D513","U+1D514","U+1D516","U+1D517","U+1D518","U+1D519","U+1D51A","U+1D51B","U+1D51C",
   "U+1D51E","U+1D51F","U+1D520","U+1D521","U+1D522","U+1D523","U+1D524","U+1D525","U+1D526",
   "U+1D527","U+1D528","U+1D529","U+1D52A","U+1D52B","U+1D52C","U+1D52D","U+1D52E","U+1D52F",
   "U+1D530","U+1D531","U+1D532","U+1D533","U+1D534","U+1D535","U+1D536","U+1D537","U+1D538",
   "U+1D539","U+1D53B","U+1D53C","U+1D53D","U+1D53E","U+1D540","U+1D541","U+1D542","U+1D543",
   "U+1D544","U+1D546","U+1D54A","U+1D54B","U+1D54C","U+1D54D","U+1D54E","U+1D54F","U+1D550",
   "U+1D552","U+1D553","U+1D554","U+1D555","U+1D556","U+1D557","U+1D558","U+1D559","U+1D55A",
   "U+1D55B","U+1D55C","U+1D55D","U+1D55E","U+1D55F","U+1D560","U+1D561","U+1D562","U+1D563",
   "U+1D564","U+1D565","U+1D566","U+1D567","U+1D568","U+1D569","U+1D56A","U+1D56B","U+1D56C",
   "U+1D56D","U+1D56E","U+1D56F","U+1D570","U+1D571","U+1D572","U+1D573","U+1D574","U+1D575",
   "U+1D576","U+1D577","U+1D578","U+1D579","U+1D57A","U+1D57B","U+1D57C","U+1D57D","U+1D57E",
   "U+1D57F","U+1D580","U+1D581","U+1D582","U+1D583","U+1D584","U+1D585","U+1D586","U+1D587",
   "U+1D588","U+1D589","U+1D58A","U+1D58B","U+1D58C","U+1D58D","U+1D58E","U+1D58F","U+1D590",
   "U+1D591","U+1D592","U+1D593","U+1D594","U+1D595","U+1D596","U+1D597","U+1D598","U+1D599",
   "U+1D59A","U+1D59B","U+1D59C","U+1D59D","U+1D59E","U+1D59F","U+1D5A0","U+1D5A1","U+1D5A2",
   "U+1D5A3","U+1D5A4","U+1D5A5","U+1D5A6","U+1D5A7","U+1D5A8","U+1D5A9","U+1D5AA","U+1D5AB",
   "U+1D5AC","U+1D5AD","U+1D5AE","U+1D5AF","U+1D5B0","U+1D5B1","U+1D5B2","U+1D5B3","U+1D5B4",
   "U+1D5B5","U+1D5B6","U+1D5B7","U+1D5B8","U+1D5B9","U+1D5BA","U+1D5BB","U+1D5BC","U+1D5BD",
   "U+1D5BE","U+1D5BF","U+1D5C0","U+1D5C1","U+1D5C2","U+1D5C3","U+1D5C4","U+1D5C5","U+1D5C6",
   "U+1D5C7","U+1D5C8","U+1D5C9","U+1D5CA","U+1D5CB","U+1D5CC","U+1D5CD","U+1D5CE","U+1D5CF",
   "U+1D5D0","U+1D5D1","U+1D5D2","U+1D5D3","U+1D5D4","U+1D5D5","U+1D5D6","U+1D5D7","U+1D5D8",
   "U+1D5D9","U+1D5DA","U+1D5DB","U+1D5DC","U+1D5DD","U+1D5DE","U+1D5DF","U+1D5E0","U+1D5E1",
   "U+1D5E2","U+1D5E3","U+1D5E4","U+1D5E5","U+1D5E6","U+1D5E7","U+1D5E8","U+1D5E9","U+1D5EA",
   "U+1D5EB","U+1D5EC","U+1D5ED","U+1D5EE","U+1D5EF","U+1D5F0","U+1D5F1","U+1D5F2","U+1D5F3",
   "U+1D5F4","U+1D5F5","U+1D5F6","U+1D5F7","U+1D5F8","U+1D5F9","U+1D5FA","U+1D5FB","U+1D5FC",
   "U+1D5FD","U+1D5FE","U+1D5FF","U+1D600","U+1D601","U+1D602","U+1D603","U+1D604","U+1D605",
   "U+1D606","U+1D607","U+1D608","U+1D609","U+1D60A","U+1D60B","U+1D60C","U+1D60D","U+1D60E",
   "U+1D60F","U+1D610","U+1D611","U+1D612","U+1D613","U+1D614","U+1D615","U+1D616","U+1D617",
   "U+1D618","U+1D619","U+1D61A","U+1D61B","U+1D61C","U+1D61D","U+1D61E","U+1D61F","U+1D620",
   "U+1D621","U+1D622","U+1D623","U+1D624","U+1D625","U+1D626","U+1D627","U+1D628","U+1D629",
   "U+1D62A","U+1D62B","U+1D62C","U+1D62D","U+1D62E","U+1D62F","U+1D630","U+1D631","U+1D632",
   "U+1D633","U+1D634","U+1D635","U+1D636","U+1D637","U+1D638","U+1D639","U+1D63A","U+1D63B",
   "U+1D63C","U+1D63D","U+1D63E","U+1D63F","U+1D640","U+1D641","U+1D642","U+1D643","U+1D644",
   "U+1D645","U+1D646","U+1D647","U+1D648","U+1D649","U+1D64A","U+1D64B","U+1D64C","U+1D64D",
   "U+1D64E","U+1D64F","U+1D650","U+1D651","U+1D652","U+1D653","U+1D654","U+1D655","U+1D656",
   "U+1D657","U+1D658","U+1D659","U+1D65A","U+1D65B","U+1D65C","U+1D65D","U+1D65E","U+1D65F",
   "U+1D660","U+1D661","U+1D662","U+1D663","U+1D664","U+1D665","U+1D666","U+1D667","U+1D668",
   "U+1D669","U+1D66A","U+1D66B","U+1D66C","U+1D66D","U+1D66E","U+1D66F","U+1D670","U+1D671",
   "U+1D672","U+1D673","U+1D674","U+1D675","U+1D676","U+1D677","U+1D678","U+1D679","U+1D67A",
   "U+1D67B","U+1D67C","U+1D67D","U+1D67E","U+1D67F","U+1D680","U+1D681","U+1D682","U+1D683",
   "U+1D684","U+1D685","U+1D686","U+1D687","U+1D688","U+1D689","U+1D68A","U+1D68B","U+1D68C",
   "U+1D68D","U+1D68E","U+1D68F","U+1D690","U+1D691","U+1D692","U+1D693","U+1D694","U+1D695",
   "U+1D696","U+1D697","U+1D698","U+1D699","U+1D69A","U+1D69B","U+1D69C","U+1D69D","U+1D69E",
   "U+1D69F","U+1D6A0","U+1D6A1","U+1D6A2","U+1D6A3","U+1D6A4","U+1D6A5","U+1D6A8","U+1D6A9",
   "U+1D6AA","U+1D6AB","U+1D6AC","U+1D6AD","U+1D6AE","U+1D6AF","U+1D6B0","U+1D6B1","U+1D6B2",
   "U+1D6B3","U+1D6B4","U+1D6B5","U+1D6B6","U+1D6B7","U+1D6B8","U+1D6B9","U+1D6BA","U+1D6BB",
   "U+1D6BC","U+1D6BD","U+1D6BE","U+1D6BF","U+1D6C0","U+1D6C2","U+1D6C3","U+1D6C4","U+1D6C5",
   "U+1D6C6","U+1D6C7","U+1D6C8","U+1D6C9","U+1D6CA","U+1D6CB","U+1D6CC","U+1D6CD","U+1D6CE",
   "U+1D6CF","U+1D6D0","U+1D6D1","U+1D6D2","U+1D6D3","U+1D6D4","U+1D6D5","U+1D6D6","U+1D6D7",
   "U+1D6D8","U+1D6D9","U+1D6DA","U+1D6DC","U+1D6DD","U+1D6DE","U+1D6DF","U+1D6E0","U+1D6E1",
   "U+1D6E2","U+1D6E3","U+1D6E4","U+1D6E5","U+1D6E6","U+1D6E7","U+1D6E8","U+1D6E9","U+1D6EA",
   "U+1D6EB","U+1D6EC","U+1D6ED","U+1D6EE","U+1D6EF","U+1D6F0","U+1D6F1","U+1D6F2","U+1D6F3",
   "U+1D6F4","U+1D6F5","U+1D6F6","U+1D6F7","U+1D6F8","U+1D6F9","U+1D6FA","U+1D6FC","U+1D6FD",
   "U+1D6FE","U+1D6FF","U+1D700","U+1D701","U+1D702","U+1D703","U+1D704","U+1D705","U+1D706",
   "U+1D707","U+1D708","U+1D709","U+1D70A","U+1D70B","U+1D70C","U+1D70D","U+1D70E","U+1D70F",
   "U+1D710","U+1D711","U+1D712","U+1D713","U+1D714","U+1D716","U+1D717","U+1D718","U+1D719",
   "U+1D71A","U+1D71B","U+1D71C","U+1D71D","U+1D71E","U+1D71F","U+1D720","U+1D721","U+1D722",
   "U+1D723","U+1D724","U+1D725","U+1D726","U+1D727","U+1D728","U+1D729","U+1D72A","U+1D72B",
   "U+1D72C","U+1D72D","U+1D72E","U+1D72F","U+1D730","U+1D731","U+1D732","U+1D733","U+1D734",
   "U+1D736","U+1D737","U+1D738","U+1D739","U+1D73A","U+1D73B","U+1D73C","U+1D73D","U+1D73E",
   "U+1D73F","U+1D740","U+1D741","U+1D742","U+1D743","U+1D744","U+1D745","U+1D746","U+1D747",
   "U+1D748","U+1D749","U+1D74A","U+1D74B","U+1D74C","U+1D74D","U+1D74E","U+1D750","U+1D751",
   "U+1D752","U+1D753","U+1D754","U+1D755","U+1D756","U+1D757","U+1D758","U+1D759","U+1D75A",
   "U+1D75B","U+1D75C","U+1D75D","U+1D75E","U+1D75F","U+1D760","U+1D761","U+1D762","U+1D763",
   "U+1D764","U+1D765","U+1D766","U+1D767","U+1D768","U+1D769","U+1D76A","U+1D76B","U+1D76C",
   "U+1D76D","U+1D76E","U+1D770","U+1D771","U+1D772","U+1D773","U+1D774","U+1D775","U+1D776",
   "U+1D777","U+1D778","U+1D779","U+1D77A","U+1D77B","U+1D77C","U+1D77D","U+1D77E","U+1D77F",
   "U+1D780","U+1D781","U+1D782","U+1D783","U+1D784","U+1D785","U+1D786","U+1D787","U+1D788",
   "U+1D78A","U+1D78B","U+1D78C","U+1D78D","U+1D78E","U+1D78F","U+1D790","U+1D791","U+1D792",
   "U+1D793","U+1D794","U+1D795","U+1D796","U+1D797","U+1D798","U+1D799","U+1D79A","U+1D79B",
   "U+1D79C","U+1D79D","U+1D79E","U+1D79F","U+1D7A0","U+1D7A1","U+1D7A2","U+1D7A3","U+1D7A4",
   "U+1D7A5","U+1D7A6","U+1D7A7","U+1D7A8","U+1D7AA","U+1D7AB","U+1D7AC","U+1D7AD","U+1D7AE",
   "U+1D7AF","U+1D7B0","U+1D7B1","U+1D7B2","U+1D7B3","U+1D7B4","U+1D7B5","U+1D7B6","U+1D7B7",
   "U+1D7B8","U+1D7B9","U+1D7BA","U+1D7BB","U+1D7BC","U+1D7BD","U+1D7BE","U+1D7BF","U+1D7C0",
   "U+1D7C1","U+1D7C2","U+1D7C4","U+1D7C5","U+1D7C6","U+1D7C7","U+1D7C8","U+1D7C9","U+1D7CA",
   "U+1D7CB","U+1DF00","U+1DF01","U+1DF02","U+1DF03","U+1DF04","U+1DF05","U+1DF06","U+1DF07",
   "U+1DF08","U+1DF09","U+1DF0B","U+1DF0C","U+1DF0D","U+1DF0E","U+1DF0F","U+1DF10","U+1DF11",
   "U+1DF12","U+1DF13","U+1DF14","U+1DF15","U+1DF16","U+1DF17","U+1DF18","U+1DF19","U+1DF1A",
   "U+1DF1B","U+1DF1C","U+1DF1D","U+1DF1E","U+1E900","U+1E901","U+1E902","U+1E903","U+1E904",
   "U+1E905","U+1E906","U+1E907","U+1E908","U+1E909","U+1E90A","U+1E90B","U+1E90C","U+1E90D",
   "U+1E90E","U+1E90F","U+1E910","U+1E911","U+1E912","U+1E913","U+1E914","U+1E915","U+1E916",
   "U+1E917","U+1E918","U+1E919","U+1E91A","U+1E91B","U+1E91C","U+1E91D","U+1E91E","U+1E91F",
   "U+1E920","U+1E921","U+1E922","U+1E923","U+1E924","U+1E925","U+1E926","U+1E927","U+1E928",
   "U+1E929","U+1E92A","U+1E92B","U+1E92C","U+1E92D","U+1E92E","U+1E92F","U+1E930","U+1E931",
   "U+1E932","U+1E933","U+1E934","U+1E935","U+1E936","U+1E937","U+1E938","U+1E939","U+1E93A",
   "U+1E93B","U+1E93C","U+1E93D","U+1E93E","U+1E93F","U+1E940","U+1E941","U+1E942","U+1E943",
   "U+1F130","U+1F131","U+1F132","U+1F133","U+1F134","U+1F135","U+1F136","U+1F137","U+1F138",
   "U+1F139","U+1F13A","U+1F13B","U+1F13C","U+1F13D","U+1F13E","U+1F13F","U+1F140","U+1F141",
   "U+1F142","U+1F143","U+1F144","U+1F145","U+1F146","U+1F147","U+1F148","U+1F149","U+1F150",
   "U+1F151","U+1F152","U+1F153","U+1F154","U+1F155","U+1F156","U+1F157","U+1F158","U+1F159",
   "U+1F15A","U+1F15B","U+1F15C","U+1F15D","U+1F15E","U+1F15F","U+1F160","U+1F161","U+1F162",
   "U+1F163","U+1F164","U+1F165","U+1F166","U+1F167","U+1F168","U+1F169","U+1F170","U+1F171",
   "U+1F172","U+1F173","U+1F174","U+1F175","U+1F176","U+1F177","U+1F178","U+1F179","U+1F17A",
   "U+1F17B","U+1F17C","U+1F17D","U+1F17E","U+1F17F","U+1F180","U+1F181","U+1F182","U+1F183",
   "U+1F184","U+1F185","U+1F186","U+1F187","U+1F188","U+1F189"
  }

(***************************************************************************)
(* Python string primitives.                                               *)
(***************************************************************************)
SetMin(S) == CHOOSE x \in S : \A y \in S : x <= y

SetMax(S) == CHOOSE x \in S : \A y \in S : x >= y

(* str.isspace() of a one-character string *)
IsSpace(ch) == ch \in WHITESPACE

(* str.strip(): drop leading and trailing whitespace *)
strip(s) ==
  LET keep == {i \in 1..Len(s) : ~IsSpace(s[i])}
  IN  IF keep = {} THEN <<>> ELSE SubSeq(s, SetMin(keep), SetMax(keep))

(* c.lower() for every character that has one *)
LowerOf ==
  [ch \in {UPPER[i] : i \in 1..Len(UPPER)} |->
     LOWER[CHOOSE i \in 1..Len(UPPER) : UPPER[i] = ch]]

(* str.lower() of a one-character string: a string, of two characters for  *)
(* U+0130                                                                  *)
LowerChar(ch) == IF ch \in DOMAIN LowerOf THEN LowerOf[ch] ELSE <<ch>>

(* "".join(strings) *)
RECURSIVE Join(_)
Join(strings) ==
  IF strings = <<>> THEN <<>> ELSE Head(strings) \o Join(Tail(strings))

(* The capital sigma at position i of s is lowered to the final sigma:     *)
(* the nearest character before it that is not case-ignorable is a cased   *)
(* letter, and the nearest such character after it, if any, is not.        *)
FinalSigma(s, i) ==
  LET before == {j \in 1..(i - 1) : s[j] \notin CASE_IGNORABLE}
      after == {j \in (i + 1)..Len(s) : s[j] \notin CASE_IGNORABLE}
  IN  /\ before # {}
      /\ s[SetMax(before)] \in CASED
      /\ after = {} \/ s[SetMin(after)] \notin CASED

(* str.lower() *)
lower(s) ==
  Join([i \in 1..Len(s) |->
          IF s[i] = "Σ"
            THEN IF FinalSigma(s, i) THEN <<"ς">> ELSE <<"σ">>
            ELSE LowerChar(s[i])])

(* Python `sub in s` on strings *)
Contains(sub, s) ==
  \E i \in 0..(Len(s) - Len(sub)) : SubSeq(s, i + 1, i + Len(sub)) = sub

(* _fallback_response with the analyze/gap rule tried first *)
_fallback_response_analyze_first(prompt) ==
  LET p == lower(prompt)
      has(kw) == Contains(kw, p)
  IN  IF has(KW_analyze) \/ has(KW_gap)
        THEN _analyze_gaps_template
      ELSE IF has(KW_how_many_sections) \/ has(KW_sections_do_i_have)
        THEN SECTIONS_COUNT_RESPONSE
      ELSE IF has(KW_create_sections) \/ has(KW_create_them) \/ has(KW_make_sections)
        THEN CREATE_SECTIONS_RESPONSE
      ELSE IF has(KW_vex) \/ has(KW_en) \/ has(KW_engineering_notebook)
        THEN IF has(KW_team) THEN VEX_TEAM_RESPONSE ELSE VEX_RESPONSE
      ELSE IF has(KW_draft) /\ has(KW_section)
        THEN _draft_section_template
      ELSE IF has(KW_rewrite) \/ has(KW_improve)
        THEN _rewrite_content_template
      ELSE IF has(KW_question) \/ has(KW_ask)
        THEN _generate_questions_template
      ELSE GENERIC_RESPONSE

(* _fallback_response without .lower(): the tests are case-sensitive *)
_fallback_response_case_sensitive(prompt) ==
  LET has(kw) == Contains(kw, prompt)
  IN  IF has(KW_how_many_sections) \/ has(KW_sections_do_i_have)
        THEN SECTIONS_COUNT_RESPONSE
      ELSE IF has(KW_create_sections) \/ has(KW_create_them) \/ has(KW_make_sections)
        THEN CREATE_SECTIONS_RESPONSE
      ELSE IF has(KW_vex) \/ has(KW_en) \/ has(KW_engineering_notebook)
        THEN IF has(KW_team) THEN VEX_TEAM_RESPONSE ELSE VEX_RESPONSE
      ELSE IF has(KW_draft) /\ has(KW_section)
        THEN _draft_section_template
      ELSE IF has(KW_rewrite) \/ has(KW_improve)
        THEN _rewrite_content_template
      ELSE IF has(KW_question) \/ has(KW_ask)
        THEN _generate_questions_template
      ELSE IF has(KW_analyze) \/ has(KW_gap)
        THEN _analyze_gaps_template
      ELSE GENERIC_RESPONSE

(* _fallback_response with another answer in its last branch *)
_fallback_response_other_default(prompt) ==
  LET p == lower(prompt)
  IN  IF Contains(KW_analyze, p) \/ Contains(KW_gap, p)
        THEN _analyze_gaps_template
        ELSE _generate_questions_template

(***************************************************************************)
(* OpenRouterBackend._fallback_response: the first matching rule wins.     *)
(***************************************************************************)
_fallback_response(prompt) ==
  LET p == lower(prompt)
      has(kw) == Contains(kw, p)
  IN  IF has(KW_how_many_sections) \/ has(KW_sections_do_i_have)
        THEN SECTIONS_COUNT_RESPONSE
      ELSE IF has(KW_create_sections) \/ has(KW_create_them) \/ has(KW_make_sections)
        THEN CREATE_SECTIONS_RESPONSE
      ELSE IF has(KW_vex) \/ has(KW_en) \/ has(KW_engineering_notebook)
        THEN IF has(KW_team) THEN VEX_TEAM_RESPONSE ELSE VEX_RESPONSE
      ELSE IF has(KW_draft) /\ has(KW_section)
        THEN _draft_section_template
      ELSE IF has(KW_rewrite) \/ has(KW_improve)
        THEN _rewrite_content_template
      ELSE IF has(KW_question) \/ has(KW_ask)
        THEN _generate_questions_template
      ELSE IF has(KW_analyze) \/ has(KW_gap)
        THEN _analyze_gaps_template
      ELSE GENERIC_RESPONSE

(***************************************************************************)
(* Configuration and responses of the provider.                            *)
(***************************************************************************)
(* Execution contexts (threads of the web server) that call the one        *)
(* OpenRouterBackend of the process.                                       *)
Ctx == {"c1", "c2"}

ModelId(i) == <<"model", i>>

KeyId(i) == <<"key", i>>

NoModel == <<"model", 0>>

NoKey == <<"key", 0>>

(* analyze_image always asks the vision model *)
vision_model == <<"vision", 0>>

IMAGE_FAILED_PREFIX ==
  <<"I","m","a","g","e"," ","a","n","a","l","y","s","i","s"," ","f","a","i","l","e","d",":"," ">>

ERROR_TEXT == <<"e","r","r","o","r">>

(* A response body as the code reads it: response.json() works or raises,  *)
(* data['choices'][0] exists or not, ['message']['content'] is a string or *)
(* not.                                                                    *)
Body(json, choices, has_content, content) ==
  [json |-> json, choices |-> choices, has_content |-> has_content, content |-> content]

Contents == {CONTENT_HELLO, CONTENT_PADDED, <<" ">>, GENERIC_RESPONSE}

GoodBodies == {Body(TRUE, 1, TRUE, t) : t \in Contents}

BadBodies == {Body(FALSE, 0, FALSE, <<>>), Body(TRUE, 0, FALSE, <<>>), Body(TRUE, 1, FALSE, <<>>)}

ErrorStatuses == {401, 500}

(* What one HTTP call can do: raise (timeout, DNS, reset) or answer. *)
Responses ==
  {[raised |-> TRUE, status |-> 0, body |-> Body(FALSE, 0, FALSE, <<>>), text |-> <<>>]}
  \cup {[raised |-> FALSE, status |-> 200, body |-> b, text |-> <<>>] : b \in GoodBodies \cup BadBodies}
  \cup {[raised |-> FALSE, status |-> s, body |-> Body(FALSE, 0, FALSE, <<>>), text |-> ERROR_TEXT] :
          s \in ErrorStatuses}

(* response.json(), data['choices'][0]['message']['content'], content.strip() raise nothing *)
Parses(body) == body.json /\ body.choices >= 1 /\ body.has_content

(* The branch of the try/except an outcome takes. *)
Classify(resp) ==
  IF resp.raised THEN "NetworkError"
  ELSE IF resp.status = 200
    THEN IF Parses(resp.body) THEN "Success" ELSE "ProtocolError"
  ELSE IF resp.status = 401 THEN "AuthError"
  ELSE "ProviderError"

(* Variants of Disposition with one branch changed. *)
DispositionRetryAfterSuccess(kind) ==
  IF kind = "ProviderError" THEN "next_model" ELSE "next_key"

DispositionBreakOn401(kind) ==
  CASE kind = "Success" -> "return"
    [] kind \in {"NetworkError", "ProtocolError"} -> "next_key"
    [] OTHER -> "next_model"

DispositionNextKeyOnProviderError(kind) ==
  IF kind = "Success" THEN "return" ELSE "next_key"

(* What the branch does: return, advance the key and continue, or break. *)
Disposition(kind) ==
  CASE kind = "Success" -> "return"
    [] kind = "AuthError" -> "next_key"
    [] kind \in {"NetworkError", "ProtocolError"} -> "next_key"
    [] OTHER -> "next_model"

(* Variant of Caught: `except requests.RequestException`. *)
CaughtRequestExceptionOnly(kind) == kind = "NetworkError"

(* `except Exception as e` (lines 143, 224): the clause matches whatever   *)
(* the try block raises, a failed request as well as a failed parse.       *)
Caught(kind) == TRUE

(* The outcomes that are exceptions raised inside the try block. *)
RaisedInTry(kind) == kind \in {"NetworkError", "ProtocolError"}

(* Variants of AdvanceIndex: the increment or the modulo forgotten. *)
AdvanceIndexStuck(i, n) == i % n

AdvanceIndexNoWrap(i, n) == i + 1

(* (index + 1) % len(list) *)
AdvanceIndex(i, n) == (i + 1) % n

VARIABLES
  models,                  \* self.models
  api_keys,                \* self.api_keys
  current_model_index,     \* self.current_model_index (0-based)
  current_api_key_index,   \* self.current_api_key_index (0-based)
  client,                  \* self.client: the shared session and its Authorization header
  ctor,                    \* position of __init__/_initialize_client
  frame,                   \* per context: the locals of the call in progress
  ret,                     \* per context: what the last finished call returned
  recording,               \* whether the calls are recorded in `call`
  call,                    \* per context: what the current/last call has done so far
  active_tasks,            \* ai_service_client.TaskManager.active_tasks
  task_history,            \* ai_service_client.TaskManager.task_history
  in_memory_tasks,         \* services.task_manager.TaskManager.in_memory_tasks
  task_timeouts,           \* services.task_manager.TaskManager.task_timeouts
  now,                     \* time.time() of the service process
  handler,                 \* per task id: the POST /agentic-task handler in progress
  reply                    \* what the last finished task operation answered

(* The state of the two task managers and of the service's handlers. *)
task_vars == <<active_tasks, task_history, in_memory_tasks, task_timeouts, now, handler, reply>>

vars == <<models, api_keys, current_model_index, current_api_key_index, client, ctor,
          frame, ret, recording, call, task_vars>>

(* The task ids of the requests. *)
TaskIds == {"t1", "t2"}

(* {} *)
EmptyDict == [k \in {} |-> k]

NoReply == [op |-> "none", task_id |-> "none", code |-> 0, value |-> <<>>]

(* TaskManager.__init__ of ai_service_client.py (lines 213-216) and of      *)
(* services/task_manager.py (lines 27-31): nothing tracked, nothing        *)
(* stored, no request in progress.                                         *)
TaskInit ==
  /\ active_tasks = EmptyDict
  /\ task_history = <<>>
  /\ in_memory_tasks = <<>>
  /\ task_timeouts = EmptyDict
  /\ now = 0
  /\ handler = [t \in TaskIds |-> [aliased |-> FALSE, detached |-> <<>>]]
  /\ reply = NoReply

ModelAttemptsOneMore == Len(models) + 1

(* range(len(self.models)) and range(len(self.api_keys)) *)
ModelAttempts == Len(models)

KeyAttemptsOneMore == Len(api_keys) + 1

KeyAttempts == Len(api_keys)

NoClient == [present |-> FALSE, auth |-> NoKey]

Session(key) == [present |-> TRUE, auth |-> key]

IdleFrame ==
  [pc |-> "idle", op |-> "none", prompt |-> <<>>, max_tokens |-> 0, model_attempt |-> 0,
   api_key_attempt |-> 0, model |-> NoModel, api_key |-> NoKey, auth |-> NoKey, tmp |-> 0]

NoRet == [op |-> "none", text |-> <<>>, ok |-> FALSE, raised |-> FALSE]

TextRet(op, text) == [op |-> op, text |-> text, ok |-> TRUE, raised |-> FALSE]

(* the call ended with an exception instead of a return value *)
Raised(op) == [op |-> op, text |-> <<>>, ok |-> FALSE, raised |-> TRUE]

NoEvent ==
  [model |-> NoModel, api_key |-> NoKey, auth |-> NoKey, max_tokens |-> 0, model_attempt |-> 0,
   api_key_attempt |-> 0, status |-> 0, result |-> "none", content |-> <<>>,
   fresh |-> TRUE, refused |-> FALSE, slept |-> FALSE]

(***************************************************************************)
(* The record of one call: the cursors when it started, the number of      *)
(* requests sent and of key advances decided, the (model, key) pairs       *)
(* tried, the models that answered with a ProviderError, the HTTP statuses *)
(* received (0 stands for a request that raised), the last two requests,   *)
(* and whether the call has slept since its last request.                  *)
(***************************************************************************)
NoCall ==
  [op |-> "none", prompt |-> <<>>, start_model |-> 0, start_key |-> 0, requests |-> 0,
   advances |-> 0, tried |-> {}, refused |-> {}, statuses |-> {}, prev |-> NoEvent,
   last |-> NoEvent, slept |-> FALSE]

NewCall(op, prompt) ==
  [NoCall EXCEPT !.op = op, !.prompt = prompt, !.start_model = current_model_index,
                 !.start_key = current_api_key_index]

(* A request as sent: the locals model and api_key, the Authorization      *)
(* header the session carried, the max_tokens of its payload, the two loop *)
(* counters, the outcome and the                                           *)
(* content of a parsed 200 body; whether the pair is new in                *)
(* this call, whether this model answered with a ProviderError earlier in  *)
(* this call, and whether the call slept since the request before.         *)
RequestEvent(h, f, auth, resp) ==
  [model |-> f.model, api_key |-> f.api_key, auth |-> auth, max_tokens |-> f.max_tokens,
   model_attempt |-> f.model_attempt, api_key_attempt |-> f.api_key_attempt,
   status |-> resp.status, result |-> Classify(resp),
   content |-> IF Classify(resp) = "Success" THEN resp.body.content ELSE <<>>,
   fresh |-> <<f.model, f.api_key>> \notin h.tried,
   refused |-> f.model \in h.refused,
   slept |-> h.slept]

RecordRequest(h, ev) ==
  [h EXCEPT !.requests = @ + 1,
            !.advances = @ + (IF Disposition(ev.result) = "next_key" THEN 1 ELSE 0),
            !.tried = @ \cup {<<ev.model, ev.api_key>>},
            !.refused = @ \cup (IF ev.result = "ProviderError" THEN {ev.model} ELSE {}),
            !.statuses = @ \cup {ev.status},
            !.prev = h.last,
            !.last = ev,
            !.slept = FALSE]

(* Variant of RecordSleep: the sleep is skipped. *)
RecordNoSleep(h) == h

RecordSleep(h) == [h EXCEPT !.slept = TRUE]

Observe(c, h) == call' = IF recording THEN [call EXCEPT ![c] = h] ELSE call

Prompts == {PROMPT_HELLO, PROMPT_GAPS}

(* max_tokens: int = 500 *)
DEFAULT_MAX_TOKENS == 500

(* "max_tokens": 500 in the payload of analyze_image *)
IMAGE_MAX_TOKENS == 500

(***************************************************************************)
(* __init__ (lines 22-49) up to the call of _initialize_client: any        *)
(* non-empty list of models and of keys, both cursors 0, no client.        *)
(***************************************************************************)
Construct ==
  /\ models \in {[i \in 1..n |-> ModelId(i)] : n \in 1..MaxModels}
  /\ api_keys \in {[i \in 1..n |-> KeyId(i)] : n \in 1..MaxKeys}
  /\ current_model_index = 0
  /\ current_api_key_index = 0
  /\ client = NoClient
  /\ ctor = [pc |-> "probing", i |-> 0, last |-> "none"]
  /\ frame = [c \in Ctx |-> IdleFrame]
  /\ ret = [c \in Ctx |-> NoRet]
  /\ call = [c \in Ctx |-> NoCall]
  /\ TaskInit

(* The calls of the one running context are recorded. *)
Init == Construct /\ recording = TRUE

(* Variant of _initialize_client: the session of the last key is kept      *)
(* when every probe has failed.                                            *)
_initialize_client_keeping_session(probe) ==
  /\ ctor.pc = "probing"
  /\ IF probe = "200"
       THEN /\ client' = Session(api_keys[ctor.i + 1])
            /\ current_api_key_index' = ctor.i
            /\ ctor' = [pc |-> "done", i |-> ctor.i, last |-> probe]
       ELSE IF ctor.i + 1 < Len(api_keys)
         THEN /\ client' = Session(api_keys[ctor.i + 1])
              /\ ctor' = [ctor EXCEPT !.i = ctor.i + 1, !.last = probe]
              /\ UNCHANGED current_api_key_index
         ELSE /\ client' = Session(api_keys[ctor.i + 1])
              /\ ctor' = [pc |-> "done", i |-> ctor.i, last |-> probe]
              /\ UNCHANGED current_api_key_index
  /\ UNCHANGED <<task_vars, models, api_keys, current_model_index, frame, ret, recording, call>>

(***************************************************************************)
(* _initialize_client: one iteration of the loop over the keys.  The       *)
(* session gets the key's header and GET /models is tried; 200 keeps the   *)
(* session and records the key's index, anything else moves on; after the  *)
(* last key the client is dropped.  ctor.last is the outcome of the probe  *)
(* made last.                                                              *)
(***************************************************************************)
_initialize_client(probe) ==
  /\ ctor.pc = "probing"
  /\ IF probe = "200"
       THEN /\ client' = Session(api_keys[ctor.i + 1])
            /\ current_api_key_index' = ctor.i
            /\ ctor' = [pc |-> "done", i |-> ctor.i, last |-> probe]
       ELSE IF ctor.i + 1 < Len(api_keys)
         THEN /\ client' = Session(api_keys[ctor.i + 1])
              /\ ctor' = [ctor EXCEPT !.i = ctor.i + 1, !.last = probe]
              /\ UNCHANGED current_api_key_index
         ELSE /\ client' = NoClient
              /\ ctor' = [pc |-> "done", i |-> ctor.i, last |-> probe]
              /\ UNCHANGED current_api_key_index
  /\ UNCHANGED <<task_vars, models, api_keys, current_model_index, frame, ret, recording, call>>

(* is_available (lines 441-443) *)
is_available == client.present

(* Variant of generate_text: the cursors are reset when a call starts. *)
generate_text_resetting_cursors(c, prompt, max_tokens) ==
  /\ ctor.pc = "done"
  /\ frame[c].pc = "idle"
  /\ Observe(c, NewCall("generate_text", prompt))
  /\ IF ~client.present
       THEN /\ ret' = [ret EXCEPT ![c] = TextRet("generate_text", CLIENT_NOT_AVAILABLE)]
            /\ UNCHANGED frame
       ELSE /\ ret' = [ret EXCEPT ![c] = NoRet]
            /\ frame' = [frame EXCEPT ![c] =
                 [IdleFrame EXCEPT !.pc = "prepare", !.op = "generate_text", !.prompt = prompt,
                                   !.max_tokens = max_tokens]]
  /\ current_model_index' = 0
  /\ current_api_key_index' = 0
  /\ UNCHANGED <<task_vars, models, api_keys, client, ctor, recording>>

(***************************************************************************)
(* generate_text, entry (lines 88-95).  max_tokens goes into the payload    *)
(* of every request as it is (line 115).                                   *)
(***************************************************************************)
generate_text(c, prompt, max_tokens) ==
  /\ ctor.pc = "done"
  /\ frame[c].pc = "idle"
  /\ Observe(c, NewCall("generate_text", prompt))
  /\ IF ~client.present
       THEN /\ ret' = [ret EXCEPT ![c] = TextRet("generate_text", CLIENT_NOT_AVAILABLE)]
            /\ UNCHANGED frame
       ELSE /\ ret' = [ret EXCEPT ![c] = NoRet]
            /\ frame' = [frame EXCEPT ![c] =
                 [IdleFrame EXCEPT !.pc = "prepare", !.op = "generate_text", !.prompt = prompt,
                                   !.max_tokens = max_tokens]]
  /\ UNCHANGED <<task_vars, models, api_keys, current_model_index, current_api_key_index, client, ctor,
                 recording>>

(* analyze_image, entry (lines 159-165): the model is the local vision_model *)
analyze_image(c, prompt) ==
  /\ ctor.pc = "done"
  /\ frame[c].pc = "idle"
  /\ Observe(c, NewCall("analyze_image", prompt))
  /\ IF ~client.present
       THEN /\ ret' = [ret EXCEPT ![c] = TextRet("analyze_image", CLIENT_NOT_AVAILABLE)]
            /\ UNCHANGED frame
       ELSE /\ ret' = [ret EXCEPT ![c] = NoRet]
            /\ frame' = [frame EXCEPT ![c] =
                 [IdleFrame EXCEPT !.pc = "load_key", !.op = "analyze_image", !.prompt = prompt,
                                   !.model = vision_model, !.max_tokens = IMAGE_MAX_TOKENS]]
  /\ UNCHANGED <<task_vars, models, api_keys, current_model_index, current_api_key_index, client, ctor,
                 recording>>

(***************************************************************************)
(* One attempt, statement by statement.  Every statement that reads or     *)
(* writes an attribute of the backend or of its session is a step of its   *)
(* own: the thread can be switched between any two of them, and it waits   *)
(* inside logger.info, client.post and time.sleep.                         *)
(*                                                                         *)
(* line 96: model = self.models[self.current_model_index]                  *)
(***************************************************************************)
LoadModel(c) ==
  /\ frame[c].pc = "prepare"
  /\ frame' = [frame EXCEPT ![c].pc = "load_key",
                            ![c].model = models[current_model_index + 1]]
  /\ UNCHANGED <<task_vars, models, api_keys, current_model_index, current_api_key_index, client,
                 ctor, ret, recording, call>>

(* lines 97 and 169: api_key = self.api_keys[self.current_api_key_index] *)
LoadKey(c) ==
  /\ frame[c].pc = "load_key"
  /\ frame' = [frame EXCEPT ![c].pc = "set_header",
                            ![c].api_key = api_keys[current_api_key_index + 1]]
  /\ UNCHANGED <<task_vars, models, api_keys, current_model_index, current_api_key_index, client,
                 ctor, ret, recording, call>>

(* lines 100-118 and 172-201: after logger.info, the key read at line 97   *)
(* is stored in the Authorization header of the shared session; the        *)
(* payload is local.                                                       *)
PrepareRequest(c) ==
  /\ frame[c].pc = "set_header"
  /\ frame' = [frame EXCEPT ![c].pc = "post"]
  /\ client' = [client EXCEPT !.auth = frame[c].api_key]
  /\ UNCHANGED <<task_vars, models, api_keys, current_model_index, current_api_key_index, ctor,
                 ret, recording, call>>

(* lines 121 and 204: self.client.post(...) sends the request with the     *)
(* headers the session carries at this moment, then waits for the answer.  *)
Send(c) ==
  /\ frame[c].pc = "post"
  /\ frame' = [frame EXCEPT ![c].pc = "await", ![c].auth = client.auth]
  /\ UNCHANGED <<task_vars, models, api_keys, current_model_index, current_api_key_index, client,
                 ctor, ret, recording, call>>

(* Variant of ReturnText: the content is returned as it came. *)
ReturnTextUnstripped(resp) ==
  IF Classify(resp) = "Success" THEN resp.body.content
  ELSE IMAGE_FAILED_PREFIX \o resp.text

(* The text a finished request hands back to the caller. *)
ReturnText(resp) ==
  IF Classify(resp) = "Success" THEN strip(resp.body.content)
  ELSE IMAGE_FAILED_PREFIX \o resp.text

(***************************************************************************)
(* lines 121-147 and 204-228: the answer to the request arrives (or the    *)
(* post raises), then the branch on the outcome.  A return ends the call;  *)
(* the 401 and except branches load self.current_api_key_index for the     *)
(* advance; the else branch of generate_text breaks and goes on to load    *)
(* self.current_model_index (line 150); the else branch of analyze_image   *)
(* returns the failure text.  An exception the except clause does not      *)
(* match would leave the call.  The load of a cursor and the store of its  *)
(* advanced value are later steps of their own: another context can run    *)
(* before the load, and between the load and the store.                    *)
(***************************************************************************)
Post(c, resp) ==
  LET f == frame[c]
      kind == Classify(resp)
      d == Disposition(kind)
      ev == RequestEvent(call[c], f, f.auth, resp)
  IN  /\ f.pc = "await"
      /\ Observe(c, RecordRequest(call[c], ev))
      /\ IF RaisedInTry(kind) /\ ~Caught(kind)
           THEN /\ ret' = [ret EXCEPT ![c] = Raised(f.op)]
                /\ frame' = [frame EXCEPT ![c] = IdleFrame]
           ELSE IF d = "return" \/ (d = "next_model" /\ f.op = "analyze_image")
           THEN /\ ret' = [ret EXCEPT ![c] = TextRet(f.op, ReturnText(resp))]
                /\ frame' = [frame EXCEPT ![c] = IdleFrame]
           ELSE IF d = "next_key"
             THEN /\ frame' = [frame EXCEPT ![c].pc = "load_key_index",
                                            ![c].model = IF f.op = "analyze_image"
                                                           THEN vision_model ELSE NoModel,
                                            ![c].api_key = NoKey,
                                            ![c].auth = NoKey]
                  /\ UNCHANGED ret
             ELSE /\ frame' = [frame EXCEPT ![c].pc = "load_model_index",
                                            ![c].model = NoModel, ![c].api_key = NoKey,
                                            ![c].auth = NoKey]
                  /\ UNCHANGED ret
      /\ UNCHANGED <<task_vars, models, api_keys, current_model_index, current_api_key_index, client,
                     ctor, recording>>

(* lines 135, 146 and 218, 227: the load of self.current_api_key_index for *)
(* the advance                                                             *)
LoadKeyIndex(c) ==
  /\ frame[c].pc = "load_key_index"
  /\ frame' = [frame EXCEPT ![c].pc = "store_key", ![c].tmp = current_api_key_index]
  /\ UNCHANGED <<task_vars, models, api_keys, current_model_index, current_api_key_index, client,
                 ctor, ret, recording, call>>

(***************************************************************************)
(* lines 135-136, 146-147 and 218-219, 227-230: the store of the advanced  *)
(* key cursor, then `continue`: the next key attempt (line 96, or line 169 *)
(* in analyze_image), or, when the inner loop is used up, line 150         *)
(* (generate_text) or the final return (analyze_image).                    *)
(***************************************************************************)
StoreKeyIndex(c) ==
  LET f == frame[c]
      j == f.api_key_attempt + 1
  IN  /\ f.pc = "store_key"
      /\ current_api_key_index' = AdvanceIndex(f.tmp, Len(api_keys))
      /\ IF j < KeyAttempts
           THEN /\ frame' = [frame EXCEPT ![c].pc = IF f.op = "generate_text"
                                                      THEN "prepare" ELSE "load_key",
                                          ![c].api_key_attempt = j,
                                          ![c].tmp = 0]
                /\ UNCHANGED ret
           ELSE IF f.op = "generate_text"
             THEN /\ frame' = [frame EXCEPT ![c].pc = "load_model_index",
                                            ![c].api_key_attempt = j, ![c].tmp = 0]
                  /\ UNCHANGED ret
             ELSE /\ ret' = [ret EXCEPT ![c] = TextRet(f.op, IMAGE_ALL_KEYS_FAILED)]
                  /\ frame' = [frame EXCEPT ![c] = IdleFrame]
      /\ UNCHANGED <<task_vars, models, api_keys, current_model_index, client, ctor, recording, call>>

(* line 150, after the inner loop ran out or after its break: the load of  *)
(* self.current_model_index                                                *)
LoadModelIndex(c) ==
  /\ frame[c].pc = "load_model_index"
  /\ frame' = [frame EXCEPT ![c].pc = "store_model", ![c].tmp = current_model_index]
  /\ UNCHANGED <<task_vars, models, api_keys, current_model_index, current_api_key_index, client,
                 ctor, ret, recording, call>>

(* Variant of StoreModelIndex: a new model starts from the first key. *)
StoreModelIndexResettingKey(c) ==
  /\ frame[c].pc = "store_model"
  /\ current_model_index' = AdvanceIndex(frame[c].tmp, Len(models))
  /\ current_api_key_index' = 0
  /\ Observe(c, RecordSleep(call[c]))
  /\ frame' = [frame EXCEPT ![c].pc = "sleep", ![c].tmp = 0]
  /\ UNCHANGED <<task_vars, models, api_keys, client, ctor, ret, recording>>

(* Variant of StoreModelIndex: after the last model's round the cursor is  *)
(* left where it is.                                                       *)
StoreModelIndexSkippingLast(c) ==
  /\ frame[c].pc = "store_model"
  /\ current_model_index' = IF frame[c].model_attempt + 1 < ModelAttempts
                              THEN AdvanceIndex(frame[c].tmp, Len(models))
                              ELSE current_model_index
  /\ Observe(c, RecordSleep(call[c]))
  /\ frame' = [frame EXCEPT ![c].pc = "sleep", ![c].tmp = 0]
  /\ UNCHANGED <<task_vars, models, api_keys, current_api_key_index, client, ctor, ret, recording>>

(***************************************************************************)
(* lines 150-153: the store of the advanced model cursor; the thread then  *)
(* waits in time.sleep(1).                                                 *)
(***************************************************************************)
StoreModelIndex(c) ==
  /\ frame[c].pc = "store_model"
  /\ current_model_index' = AdvanceIndex(frame[c].tmp, Len(models))
  /\ Observe(c, RecordSleep(call[c]))
  /\ frame' = [frame EXCEPT ![c].pc = "sleep", ![c].tmp = 0]
  /\ UNCHANGED <<task_vars, models, api_keys, current_api_key_index, client, ctor, ret, recording>>

(* lines 153-157: time.sleep(1) is over; the next model, or after the last *)
(* one the fallback response.                                              *)
Sleep(c) ==
  LET f == frame[c]
      i == f.model_attempt + 1
  IN  /\ f.pc = "sleep"
      /\ IF i < ModelAttempts
           THEN /\ frame' = [frame EXCEPT ![c].pc = "prepare", ![c].model_attempt = i,
                                          ![c].api_key_attempt = 0]
                /\ UNCHANGED ret
           ELSE /\ ret' = [ret EXCEPT ![c] = TextRet(f.op, _fallback_response(f.prompt))]
                /\ frame' = [frame EXCEPT ![c] = IdleFrame]
      /\ UNCHANGED <<task_vars, models, api_keys, current_model_index, current_api_key_index,
                     client, ctor, recording, call>>

(* switch_model (lines 453-459) *)
switch_model(c, model_index) ==
  /\ ctor.pc = "done"
  /\ frame[c].pc = "idle"
  /\ Observe(c, NewCall("switch_model", <<>>))
  /\ IF 0 <= model_index /\ model_index < Len(models)
       THEN /\ current_model_index' = model_index
            /\ ret' = [ret EXCEPT ![c] = [op |-> "switch_model", text |-> <<>>, ok |-> TRUE, raised |-> FALSE]]
       ELSE /\ UNCHANGED current_model_index
            /\ ret' = [ret EXCEPT ![c] = [op |-> "switch_model", text |-> <<>>, ok |-> FALSE, raised |-> FALSE]]
  /\ UNCHANGED <<task_vars, models, api_keys, current_api_key_index, client, ctor, frame, recording>>

Probes == {"200", "status", "raise"}

ModelIndexArgs == -1..MaxModels

Step(c) ==
  \/ \E p \in Prompts : generate_text(c, p, DEFAULT_MAX_TOKENS)
  \/ \E p \in Prompts : analyze_image(c, p)
  \/ \E i \in ModelIndexArgs : switch_model(c, i)
  \/ LoadModel(c)
  \/ LoadKey(c)
  \/ PrepareRequest(c)
  \/ Send(c)
  \/ \E r \in Responses : Post(c, r)
  \/ LoadKeyIndex(c)
  \/ StoreKeyIndex(c)
  \/ LoadModelIndex(c)
  \/ StoreModelIndex(c)
  \/ Sleep(c)

(* One context: every call runs to its end before the next one starts. *)
Next ==
  \/ \E p \in Probes : _initialize_client(p)
  \/ Step("c1")

Spec == Init /\ [][Next]_vars

(***************************************************************************)
(* Two contexts interleave at every access of the shared backend; one      *)
(* prompt and one response of each kind.                                   *)
(***************************************************************************)
ConcInit == Construct /\ recording = FALSE

ConcResponses ==
  {r \in Responses : r.status = 200 => r.body \in {Body(TRUE, 1, TRUE, CONTENT_PADDED),
                                                    Body(TRUE, 0, FALSE, <<>>)}}

ConcStep(c) ==
  \/ generate_text(c, PROMPT_HELLO, DEFAULT_MAX_TOKENS)
  \/ analyze_image(c, PROMPT_HELLO)
  \/ \E i \in ModelIndexArgs : switch_model(c, i)
  \/ LoadModel(c)
  \/ LoadKey(c)
  \/ PrepareRequest(c)
  \/ Send(c)
  \/ \E r \in ConcResponses : Post(c, r)
  \/ LoadKeyIndex(c)
  \/ StoreKeyIndex(c)
  \/ LoadModelIndex(c)
  \/ StoreModelIndex(c)
  \/ Sleep(c)

ConcNext ==
  \/ \E p \in Probes : _initialize_client(p)
  \/ \E c \in Ctx : ConcStep(c)

ConcSpec == ConcInit /\ [][ConcNext]_vars

(***************************************************************************)
(* One context calling generate_text with any max_tokens: the default, the *)
(* values the callers in the repository pass (300, 1000), and values no    *)
(* sane request has (0, 5000); one prompt and one response of each kind.   *)
(***************************************************************************)
MaxTokensArgs == {0, 300, DEFAULT_MAX_TOKENS, 1000, 5000}

ArgStep(c) ==
  \/ \E t \in MaxTokensArgs : generate_text(c, PROMPT_HELLO, t)
  \/ LoadModel(c)
  \/ LoadKey(c)
  \/ PrepareRequest(c)
  \/ Send(c)
  \/ \E r \in ConcResponses : Post(c, r)
  \/ LoadKeyIndex(c)
  \/ StoreKeyIndex(c)
  \/ LoadModelIndex(c)
  \/ StoreModelIndex(c)
  \/ Sleep(c)

ArgNext ==
  \/ \E p \in Probes : _initialize_client(p)
  \/ ArgStep("c1")

ArgSpec == Init /\ [][ArgNext]_vars

(***************************************************************************)
(* _fallback_response called on its own.  The prompts are sequences of up  *)
(* to MaxFragments fragments, in mixed case, that hit the keywords of the  *)
(* rules ("my content " holds "en"); the backend is in any of the states   *)
(* with all models and keys configured: with or without a client, the      *)
(* model cursor anywhere.                                                  *)
(***************************************************************************)
MaxFragments == 2

PromptFragments ==
  {<<"A","n","a","l","y","z","e"," ">>,
   <<"g","a","p"," ">>,
   <<"m","y"," ","c","o","n","t","e","n","t"," ">>,
   <<"V","E","X"," ">>,
   <<"t","e","a","m"," ">>,
   <<"d","r","a","f","t"," ">>,
   <<"s","e","c","t","i","o","n"," ">>,
   <<"H","o","w"," ","m","a","n","y"," ","s","e","c","t","i","o","n","s"," ">>,
   <<"c","r","e","a","t","e"," ","t","h","e","m"," ">>,
   <<"R","e","w","r","i","t","e"," ">>,
   <<"a","s","k"," ">>,
   <<"h","e","l","l","o"," ">>}

RECURSIVE PromptsOf(_)
PromptsOf(n) ==
  IF n = 0 THEN {<<>>}
  ELSE PromptsOf(n - 1) \cup {p \o f : p \in PromptsOf(n - 1), f \in PromptFragments}

FallbackPrompts == PromptsOf(MaxFragments)

FallbackInit ==
  /\ models = [i \in 1..MaxModels |-> ModelId(i)]
  /\ api_keys = [i \in 1..MaxKeys |-> KeyId(i)]
  /\ current_model_index \in 0..(MaxModels - 1)
  /\ current_api_key_index = 0
  /\ \/ client = Session(KeyId(1)) /\ ctor = [pc |-> "done", i |-> 0, last |-> "200"]
     \/ client = NoClient /\ ctor = [pc |-> "done", i |-> MaxKeys - 1, last |-> "status"]
  /\ frame = [c \in Ctx |-> IdleFrame]
  /\ ret = [c \in Ctx |-> NoRet]
  /\ call = [c \in Ctx |-> NoCall]
  /\ recording = TRUE
  /\ TaskInit

(* self._fallback_response(prompt) (lines 232-298): returns the text, reads *)
(* and assigns no attribute of the backend.                                *)
CallFallback(c, prompt) ==
  /\ ctor.pc = "done"
  /\ frame[c].pc = "idle"
  /\ Observe(c, NewCall("_fallback_response", prompt))
  /\ ret' = [ret EXCEPT ![c] = TextRet("_fallback_response", _fallback_response(prompt))]
  /\ UNCHANGED <<task_vars, models, api_keys, current_model_index, current_api_key_index, client, ctor,
                 frame, recording>>

(* one call in every behaviour, with any of the prompts *)
FallbackNext ==
  /\ call["c1"].op = "none"
  /\ \E p \in FallbackPrompts : CallFallback("c1", p)

FallbackSpec == FallbackInit /\ [][FallbackNext]_vars

(***************************************************************************)
(* The client side of the AI service: src/backend/ai_service_client.py.    *)
(* The remote service is the environment: each call to it is answered with *)
(* HTTP 200 and a status, with another HTTP status, or not at all.         *)
(***************************************************************************)
backend_vars ==
  <<models, api_keys, current_model_index, current_api_key_index, client, ctor, frame, ret,
    recording, call>>

service_vars == <<in_memory_tasks, task_timeouts, now, handler>>

(* a dict with one more key, or with a key assigned again *)
Put(dict, key, value) ==
  [k \in DOMAIN dict \cup {key} |-> IF k = key THEN value ELSE dict[k]]

(* del dict[key] *)
Del(dict, key) == [k \in DOMAIN dict \ {key} |-> dict[k]]

(* class TaskStatus *)
TaskStatuses == {"pending", "running", "completed", "failed", "cancelled"}

(* [TaskStatus.COMPLETED.value, TaskStatus.FAILED.value, TaskStatus.CANCELLED.value] *)
TerminalStatuses == {"completed", "failed", "cancelled"}

(* What the remote service does with one request: code 200 and the status  *)
(* it reports, code 500 (any status other than 200), or code 0 when the    *)
(* request raised requests.exceptions.RequestException.                    *)
RemoteAnswers ==
  {[code |-> 200, status |-> st] : st \in TaskStatuses}
  \cup {[code |-> 500, status |-> "none"], [code |-> 0, status |-> "none"]}

(* AIServiceClient.get_task_status: the status of the TaskResponse *)
get_task_status(answer) ==
  IF answer.code = 200 THEN answer.status ELSE "failed"

(* The level the logging of the process is configured with when a call    *)
(* runs: the default (WARNING), INFO as logging.basicConfig(level=         *)
(* logging.INFO) sets it, or one that disables ERROR too.                  *)
LogLevels == {"INFO", "WARNING", "CRITICAL"}

(* logger.info(msg, task_id=...) and logger.error(msg, status=...) on a    *)
(* logging.Logger: when the level is enabled the keyword arguments reach   *)
(* Logger._log, which does not take them, and the call raises TypeError;   *)
(* when it is not enabled the call returns at once.                        *)
InfoRaises(level) == level = "INFO"

ErrorRaises(level) == level \in {"INFO", "WARNING"}

(* AIServiceClient.create_task (lines 72-115): what the call ends with,    *)
(* "returned" (the new task_id) or the exception it raises.  logger.info   *)
(* of line 90 comes before the request; on a status other than 200 the     *)
(* logger.error of line 110 comes before the raise of line 111, and after  *)
(* a RequestException the logger.error of line 114 before the raise of     *)
(* line 115.                                                               *)
client_create_task(level, answer) ==
  IF InfoRaises(level) THEN [sent |-> FALSE, outcome |-> "TypeError"]
  ELSE IF answer.code = 200 THEN [sent |-> TRUE, outcome |-> "returned"]
  ELSE IF ErrorRaises(level) THEN [sent |-> TRUE, outcome |-> "TypeError"]
  ELSE [sent |-> TRUE, outcome |-> "Exception"]

(* TaskManager.start_task (lines 218-234): create_task draws a new uuid;   *)
(* when it returns the task is tracked as pending, when it raises nothing  *)
(* is tracked.  The code of the answer is -1 when no request was sent.     *)
start_task(task_id, level, answer) ==
  LET created == client_create_task(level, answer)
      code == IF created.sent THEN answer.code ELSE -1
  IN  /\ task_id \notin DOMAIN active_tasks
      /\ \A i \in 1..Len(task_history) : task_history[i].task_id # task_id
      /\ IF created.outcome = "returned"
           THEN /\ active_tasks' = Put(active_tasks, task_id,
                                       [task_id |-> task_id, status |-> "pending",
                                        cancelled_at |-> FALSE])
                /\ reply' = [op |-> "start_task", task_id |-> task_id, code |-> code,
                             value |-> task_id]
           ELSE /\ UNCHANGED active_tasks
                /\ reply' = [op |-> "start_task", task_id |-> task_id, code |-> code,
                             value |-> created.outcome]
      /\ UNCHANGED <<task_history, service_vars, backend_vars>>

(* TaskManager.update_task_status (lines 236-252) *)
update_task_status(task_id, answer) ==
  LET status == get_task_status(answer)
      task == [active_tasks[task_id] EXCEPT !.status = status]
  IN  /\ IF task_id \in DOMAIN active_tasks
           THEN IF status \in TerminalStatuses
                  THEN /\ task_history' = Append(task_history, task)
                       /\ active_tasks' = Del(active_tasks, task_id)
                  ELSE /\ active_tasks' = Put(active_tasks, task_id, task)
                       /\ UNCHANGED task_history
           ELSE UNCHANGED <<active_tasks, task_history>>
      /\ reply' = [op |-> "update_task_status", task_id |-> task_id, code |-> answer.code,
                   value |-> status]
      /\ UNCHANGED <<service_vars, backend_vars>>

(* TaskManager.cancel_task (lines 254-262) over AIServiceClient.cancel_task *)
(* (lines 157-175): success is a 200 to the DELETE.                        *)
client_cancel_task(task_id, answer) ==
  LET success == answer.code = 200
  IN  /\ IF success /\ task_id \in DOMAIN active_tasks
           THEN active_tasks' = Put(active_tasks, task_id,
                                    [active_tasks[task_id] EXCEPT !.status = "cancelled",
                                                                  !.cancelled_at = TRUE])
           ELSE UNCHANGED active_tasks
      /\ reply' = [op |-> "cancel_task", task_id |-> task_id, code |-> answer.code,
                   value |-> success]
      /\ UNCHANGED <<task_history, service_vars, backend_vars>>

(* The backend is not used: its smallest configuration, just constructed. *)
ClientInit ==
  /\ Construct
  /\ Len(models) = 1 /\ Len(api_keys) = 1
  /\ recording = FALSE

ClientNext ==
  \E t \in TaskIds, a \in RemoteAnswers :
    \/ \E level \in LogLevels : start_task(t, level, a)
    \/ update_task_status(t, a)
    \/ client_cancel_task(t, a)

ClientSpec == ClientInit /\ [][ClientNext]_vars

(***************************************************************************)
(* The agentic service: the TaskManager of                                 *)
(* src/backend/services/task_manager.py in in-memory mode (main.py never   *)
(* calls initialize, so is_redis_connected stays False) and the handlers   *)
(* of src/main.py over it.  in_memory_tasks is the dict in insertion       *)
(* order; a store is the pair of the two dicts of the manager.             *)
(***************************************************************************)
TASK_TIMEOUT == 300

DEFAULT_LIMIT == 100

(* How far the clock moves between two readings (far enough for every     *)
(* stored task to expire), and how often.                                  *)
ClockStep == TASK_TIMEOUT

MaxTicks == 1

(* The values of time.time().  Every call of time.time() is a reading of   *)
(* its own: the clock can move on between two readings of one operation.   *)
Clock == {k * ClockStep : k \in 0..MaxTicks}

(* the readings of n successive calls of time.time(), the first not before *)
(* t                                                                       *)
Readings(t, n) ==
  {r \in [1..n -> Clock] : /\ \A i \in 1..n : r[i] >= t
                           /\ \A i \in 1..(n - 1) : r[i] <= r[i + 1]}

(* How many POST /agentic-task handlers wait for the agent at the same     *)
(* time.                                                                   *)
MaxWaiting == 2

Store == [tasks |-> in_memory_tasks, timeouts |-> task_timeouts]

(* task_id in self.in_memory_tasks *)
Stored(s, task_id) == \E i \in 1..Len(s.tasks) : s.tasks[i].task_id = task_id

(* self.in_memory_tasks[task_id] *)
TaskOf(s, task_id) ==
  s.tasks[CHOOSE i \in 1..Len(s.tasks) : s.tasks[i].task_id = task_id]

(* time.time() < self.task_timeouts.get(task_id, 0) *)
Unexpired(s, task_id, t) ==
  t < (IF task_id \in DOMAIN s.timeouts THEN s.timeouts[task_id] ELSE 0)

(* self.in_memory_tasks[task_id] = task: a new key goes last, a key that   *)
(* is there keeps its place.                                               *)
PutTask(tasks, task) ==
  IF \E i \in 1..Len(tasks) : tasks[i].task_id = task.task_id
    THEN [i \in 1..Len(tasks) |->
            IF tasks[i].task_id = task.task_id THEN task ELSE tasks[i]]
    ELSE Append(tasks, task)

(* dict.update *)
Merge(task, updates) ==
  [f \in DOMAIN task |-> IF f \in DOMAIN updates THEN updates[f] ELSE task[f]]

_cleanup_task(s, task_id) ==
  [tasks |-> SelectSeq(s.tasks, LAMBDA r : r.task_id # task_id),
   timeouts |-> Del(s.timeouts, task_id)]

(* create_task (lines 55-80): created_at is the clock at line 59, the       *)
(* timeout is counted from the clock at line 73.                           *)
create_task(s, task_id, created_at, t) ==
  [tasks |-> PutTask(s.tasks, [task_id |-> task_id, status |-> "in_progress",
                               created_at |-> created_at, cancelled_at |-> FALSE]),
   timeouts |-> Put(s.timeouts, task_id, t + TASK_TIMEOUT)]

(* get_task: the task, or None after removing a task that has expired *)
get_task(s, task_id, t) ==
  IF Stored(s, task_id)
    THEN IF Unexpired(s, task_id, t)
           THEN [store |-> s, found |-> TRUE, task |-> TaskOf(s, task_id)]
           ELSE [store |-> _cleanup_task(s, task_id), found |-> FALSE, task |-> <<>>]
    ELSE [store |-> s, found |-> FALSE, task |-> <<>>]

(* update_task (lines 104-133): the clock is read in get_task (line 92),   *)
(* at t1, and for the new timeout (line 126), at t2.                       *)
update_task(s, task_id, updates, t1, t2) ==
  LET got == get_task(s, task_id, t1)
  IN  IF ~got.found
        THEN [store |-> got.store, ok |-> FALSE]
        ELSE [store |-> [tasks |-> PutTask(got.store.tasks, Merge(got.task, updates)),
                         timeouts |-> Put(got.store.timeouts, task_id, t2 + TASK_TIMEOUT)],
              ok |-> TRUE]

(* delete_task (lines 155-171): the task and its timeout go, expired or not *)
delete_task(s, task_id) ==
  [tasks |-> SelectSeq(s.tasks, LAMBDA r : r.task_id # task_id),
   timeouts |-> Del(s.timeouts, task_id)]

(* TaskManager.cancel_task of services/task_manager.py (lines 135-153):    *)
(* get_task at t1, then update_task, whose readings are t2 and t3 and      *)
(* whose result is not looked at.                                          *)
cancel_task(s, task_id, t1, t2, t3) ==
  LET got == get_task(s, task_id, t1)
  IN  IF ~got.found
        THEN [store |-> got.store, ok |-> FALSE]
        ELSE [store |-> update_task(got.store, task_id,
                                    [status |-> "cancelled", cancelled_at |-> TRUE],
                                    t2, t3).store,
              ok |-> TRUE]

(* tasks.sort(key=created_at, reverse=True): a stable sort, the tasks of   *)
(* one created_at stay in their order.                                     *)
RECURSIVE SortNewestFirst(_)
SortNewestFirst(tasks) ==
  IF tasks = <<>> THEN <<>>
  ELSE LET n == Len(tasks)
           last == tasks[n]
           rest == SortNewestFirst(SubSeq(tasks, 1, n - 1))
           k == Cardinality({i \in 1..Len(rest) : rest[i].created_at >= last.created_at})
       IN  SubSeq(rest, 1, k) \o <<last>> \o SubSeq(rest, k + 1, Len(rest))

(* tasks[:limit] for a limit >= 0 *)
Truncate(tasks, limit) ==
  SubSeq(tasks, 1, IF limit < Len(tasks) THEN limit ELSE Len(tasks))

(* not status_filter or task.get("status") == status_filter *)
MatchesFilter(task, status_filter) ==
  status_filter = "None" \/ task.status = status_filter

(* list_tasks (lines 173-206).  The loop runs over in_memory_tasks.items() *)
(* and reads the clock for each task: times[i] is the reading for the i-th *)
(* task.  At the first expired task it calls _cleanup_task, which deletes  *)
(* the key from the dict under iteration; the next step of the iterator    *)
(* raises RuntimeError, the except clause of line 204 catches it and the   *)
(* call returns [].  `reads` is the number of readings the call made.      *)
list_tasks(s, status_filter, limit, times) ==
  LET expired == {i \in 1..Len(s.tasks) : ~Unexpired(s, s.tasks[i].task_id, times[i])}
  IN  IF expired # {}
        THEN LET first == CHOOSE i \in expired : \A j \in expired : i <= j
             IN  [store |-> _cleanup_task(s, s.tasks[first].task_id), tasks |-> <<>>,
                  reads |-> first]
        ELSE [store |-> s,
              tasks |-> Truncate(SortNewestFirst(
                          SelectSeq(s.tasks, LAMBDA r : MatchesFilter(r, status_filter))),
                          limit),
              reads |-> Len(s.tasks)]

(* cleanup_expired_tasks (lines 246-268): collects the expired ids first,  *)
(* then removes them.                                                      *)
RECURSIVE CleanupAll(_, _)
CleanupAll(s, ids) ==
  IF ids = {} THEN s
  ELSE LET id == CHOOSE x \in ids : TRUE
       IN  CleanupAll(_cleanup_task(s, id), ids \ {id})

cleanup_expired_tasks(s, t) ==
  CleanupAll(s, {id \in DOMAIN s.timeouts : t >= s.timeouts[id]})

SetStore(s) ==
  /\ in_memory_tasks' = s.tasks
  /\ task_timeouts' = s.timeouts

client_vars == <<active_tasks, task_history>>

(* time.time() between two operations *)
Tick ==
  /\ now < MaxTicks * ClockStep
  /\ now' = now + ClockStep
  /\ UNCHANGED <<in_memory_tasks, task_timeouts, handler, reply, client_vars, backend_vars>>

(***************************************************************************)
(* The handlers of POST /agentic-task that wait for the agent.  The        *)
(* task_context of a handler is the dict create_task stored, as long as    *)
(* that dict is in in_memory_tasks: `aliased` says that such a handler     *)
(* waits.  Once the dict has been removed (expiry, delete_task) the        *)
(* handler holds the only reference to it: `detached` are the dicts of     *)
(* those handlers, as they were when they were removed.                    *)
(***************************************************************************)
RECURSIVE Sum(_, _)
Sum(f, S) ==
  IF S = {} THEN 0
  ELSE LET x == CHOOSE y \in S : TRUE IN f[x] + Sum(f, S \ {x})

(* the number of waiting handlers *)
Waiting ==
  Sum([t \in TaskIds |-> (IF handler[t].aliased THEN 1 ELSE 0) + Len(handler[t].detached)],
      TaskIds)

(* The waiting handlers after the store went from `old` to `new` by        *)
(* removing tasks.                                                         *)
Detached(h, old, new) ==
  [t \in TaskIds |->
     IF h[t].aliased /\ ~Stored(new, t)
       THEN [aliased |-> FALSE, detached |-> Append(h[t].detached, TaskOf(old, t))]
       ELSE h[t]]

(* The items of a task dict: "cancelled_at" is a key only once the task    *)
(* has been cancelled.                                                     *)
Items(task) ==
  [f \in DOMAIN task \ (IF task.cancelled_at THEN {} ELSE {"cancelled_at"}) |-> task[f]]

(* status: str = Field(..., regex="^(in_progress|completed|failed)$") *)
ResponseStatuses == {"in_progress", "completed", "failed"}

(* time.time() after an operation that read it n times, the last reading   *)
(* being r[n]                                                              *)
LastReading(r, n) == IF n = 0 THEN now ELSE r[n]

(* POST /agentic-task up to the await of the agent (main.py lines 127-164) *)
(* or to its answer.  A request that does not validate raises into the     *)
(* except clause, which marks the task of that id failed.  An existing     *)
(* task is resumed: _resume_task answers its status, and when that status  *)
(* is not one AgenticTaskResponse accepts ("cancelled"), the constructor   *)
(* raises into the same except clause.  Otherwise a new task is created    *)
(* and the handler waits for the agent, whether or not another handler of  *)
(* the same id is waiting.  r are the readings of the clock by the task    *)
(* manager, in the order of its calls; a path that makes fewer than three  *)
(* leaves the last ones unused.                                            *)
process_agentic_task(task_id, valid, r) ==
  LET got == get_task(Store, task_id, r[1])
      answer(status) == [op |-> "process_agentic_task", task_id |-> task_id,
                         code |-> 200, value |-> status]
      failed(s, t1, t2) == update_task(s, task_id, [status |-> "failed"], t1, t2).store
  IN  /\ IF ~valid
           THEN /\ r[3] = r[2]
                /\ SetStore(failed(Store, r[1], r[2]))
                /\ handler' = Detached(handler, Store, failed(Store, r[1], r[2]))
                /\ reply' = answer("failed")
                /\ now' = r[2]
           ELSE IF got.found
                  THEN IF got.task.status \in ResponseStatuses
                         THEN /\ r[3] = r[1]
                              /\ SetStore(got.store)
                              /\ reply' = answer(got.task.status)
                              /\ now' = r[1]
                              /\ UNCHANGED handler
                         ELSE /\ SetStore(failed(got.store, r[2], r[3]))
                              /\ handler' = Detached(handler, Store,
                                                     failed(got.store, r[2], r[3]))
                              /\ reply' = answer("failed")
                              /\ now' = r[3]
                  ELSE /\ Waiting < MaxWaiting
                       /\ SetStore(create_task(got.store, task_id, r[2], r[3]))
                       /\ handler' = [Detached(handler, Store, got.store)
                                        EXCEPT ![task_id].aliased = TRUE]
                       /\ now' = r[3]
                       /\ UNCHANGED reply
      /\ UNCHANGED <<client_vars, backend_vars>>

(* POST /agentic-task after the agent returned (lines 166-190), for the    *)
(* handler whose task_context is the stored dict: task_context.update      *)
(* writes the agent's status into the stored task, and update_task merges  *)
(* the dict into itself and resets the timeout, or removes the task when   *)
(* it has expired.                                                         *)
process_agentic_task_finish(task_id, status, r) ==
  /\ handler[task_id].aliased
  /\ SetStore(update_task(Store, task_id, [status |-> status], r[1], r[2]).store)
  /\ handler' = [handler EXCEPT ![task_id].aliased = FALSE]
  /\ reply' = [op |-> "process_agentic_task", task_id |-> task_id, code |-> 200,
               value |-> status]
  /\ now' = r[2]
  /\ UNCHANGED <<client_vars, backend_vars>>

(* The same lines for a handler whose task_context is no longer the stored *)
(* dict: task_context.update changes the handler's own dict, and           *)
(* update_task merges every item of it into the task that is stored under  *)
(* the id now, if there is one, and resets its timeout.                    *)
process_agentic_task_finish_detached(task_id, i, status, r) ==
  /\ i \in 1..Len(handler[task_id].detached)
  /\ LET task_context == [handler[task_id].detached[i] EXCEPT !.status = status]
         updated == update_task(Store, task_id, Items(task_context), r[1], r[2]).store
         rest == [handler EXCEPT ![task_id].detached =
                    SubSeq(@, 1, i - 1) \o SubSeq(@, i + 1, Len(@))]
     IN  /\ SetStore(updated)
         /\ handler' = Detached(rest, Store, updated)
  /\ reply' = [op |-> "process_agentic_task", task_id |-> task_id, code |-> 200,
               value |-> status]
  /\ now' = r[2]
  /\ UNCHANGED <<client_vars, backend_vars>>

(* GET /task/{task_id} (lines 276-286): the HTTPException of line 282 is   *)
(* raised inside the try and caught by the except Exception of line 284.   *)
get_task_status_handler(task_id, r) ==
  LET got == get_task(Store, task_id, r[1])
  IN  /\ SetStore(got.store)
      /\ handler' = Detached(handler, Store, got.store)
      /\ reply' = IF got.found
                    THEN [op |-> "get_task_status", task_id |-> task_id, code |-> 200,
                          value |-> got.task]
                    ELSE [op |-> "get_task_status", task_id |-> task_id, code |-> 500,
                          value |-> "Internal server error"]
      /\ now' = r[1]
      /\ UNCHANGED <<client_vars, backend_vars>>

(* DELETE /task/{task_id} (lines 288-298), the same shape.  cancel_task    *)
(* reads the clock in its own get_task and in update_task.                 *)
cancel_task_handler(task_id, r) ==
  LET done == cancel_task(Store, task_id, r[1], r[2], r[3])
  IN  /\ SetStore(done.store)
      /\ handler' = Detached(handler, Store, done.store)
      /\ reply' = IF done.ok
                    THEN [op |-> "cancel_task", task_id |-> task_id, code |-> 200,
                          value |-> "Task cancelled successfully"]
                    ELSE [op |-> "cancel_task", task_id |-> task_id, code |-> 500,
                          value |-> "Internal server error"]
      /\ now' = r[3]
      /\ UNCHANGED <<client_vars, backend_vars>>

(* A call of TaskManager.list_tasks; times[i] is the reading of the clock  *)
(* at the i-th stored task.                                                *)
ListTasks(status_filter, limit, times) ==
  LET listed == list_tasks(Store, status_filter, limit, times)
  IN  /\ SetStore(listed.store)
      /\ handler' = Detached(handler, Store, listed.store)
      /\ reply' = [op |-> "list_tasks", task_id |-> status_filter, code |-> limit,
                   value |-> listed.tasks]
      /\ now' = LastReading(times, listed.reads)
      /\ UNCHANGED <<client_vars, backend_vars>>

CleanupExpiredTasks(r) ==
  /\ SetStore(cleanup_expired_tasks(Store, r[1]))
  /\ handler' = Detached(handler, Store, cleanup_expired_tasks(Store, r[1]))
  /\ reply' = [op |-> "cleanup_expired_tasks", task_id |-> "none", code |-> 0, value |-> <<>>]
  /\ now' = r[1]
  /\ UNCHANGED <<client_vars, backend_vars>>

(* A call of TaskManager.delete_task; it returns True. *)
DeleteTask(task_id) ==
  /\ SetStore(delete_task(Store, task_id))
  /\ handler' = Detached(handler, Store, delete_task(Store, task_id))
  /\ reply' = [op |-> "delete_task", task_id |-> task_id, code |-> 0, value |-> TRUE]
  /\ UNCHANGED <<now, client_vars, backend_vars>>

StatusFilters == {"None", "in_progress", "cancelled"}

Limits == {1, DEFAULT_LIMIT}

ServiceNext ==
  \/ Tick
  \/ \E t \in TaskIds, valid \in BOOLEAN, r \in Readings(now, 3) :
       process_agentic_task(t, valid, r)
  \/ \E t \in TaskIds, status \in {"completed", "failed"}, r \in Readings(now, 2) :
       process_agentic_task_finish(t, status, r)
  \/ \E t \in TaskIds, i \in 1..MaxWaiting, status \in {"completed", "failed"},
        r \in Readings(now, 2) :
       process_agentic_task_finish_detached(t, i, status, r)
  \/ \E t \in TaskIds, r \in Readings(now, 1) : get_task_status_handler(t, r)
  \/ \E t \in TaskIds, r \in Readings(now, 3) : cancel_task_handler(t, r)
  \/ \E f \in StatusFilters, limit \in Limits, times \in Readings(now, Len(in_memory_tasks)) :
       ListTasks(f, limit, times)
  \/ \E r \in Readings(now, 1) : CleanupExpiredTasks(r)
  \/ \E t \in TaskIds : DeleteTask(t)

ServiceSpec == ClientInit /\ [][ServiceNext]_vars

(***************************************************************************)
(* Vocabulary of the properties.                                           *)
(***************************************************************************)
M == Len(models)

K == Len(api_keys)

(* the call of `op` by context c has returned and no other call has started *)
Finished(c, op) == frame[c].pc = "idle" /\ ret[c].op = op /\ call[c].op = op

Running(c, op) == frame[c].pc # "idle" /\ frame[c].op = op

(* the request ended in a 401 or an exception and the key cursor has not   *)
(* been advanced yet                                                       *)
AdvancingKey(f) == f.pc \in {"load_key_index", "store_key"}

NextKey(key) == api_keys[(key[2] % K) + 1]

NextModel(model) == models[(model[2] % M) + 1]

CurrentModel == models[current_model_index + 1]

CurrentKey == api_keys[current_api_key_index + 1]

(***************************************************************************)
(* C1: a generate_text call never sends more than M*K completion requests  *)
(* and it ends: every step of the call lowers a rank that is positive      *)
(* while the call runs, so the call returns within Rank steps.             *)
(***************************************************************************)
Rank(f) ==
  IF f.pc = "idle" THEN 0
  ELSE (M - f.model_attempt) * (7 * K + 3)
       - (CASE f.pc = "prepare" -> 7 * f.api_key_attempt
            [] f.pc = "load_key" -> 7 * f.api_key_attempt + 1
            [] f.pc = "set_header" -> 7 * f.api_key_attempt + 2
            [] f.pc = "post" -> 7 * f.api_key_attempt + 3
            [] f.pc = "await" -> 7 * f.api_key_attempt + 4
            [] f.pc = "load_key_index" -> 7 * f.api_key_attempt + 5
            [] f.pc = "store_key" -> 7 * f.api_key_attempt + 6
            [] f.pc = "load_model_index" -> 7 * K
            [] f.pc = "store_model" -> 7 * K + 1
            [] OTHER -> 7 * K + 2)

RankDecreases ==
  (Running("c1", "generate_text") /\ frame'["c1"].pc # frame["c1"].pc)
    => /\ Rank(frame'["c1"]) < Rank(frame["c1"])
       /\ Rank(frame["c1"]) > 0
       /\ \/ Running("c1", "generate_text")'
          \/ Finished("c1", "generate_text")'

C1_BoundedTermination ==
  /\ [](call["c1"].op = "generate_text" => call["c1"].requests <= M * K)
  /\ [][RankDecreases]_vars

(* a call that used its whole budget on the largest configuration *)
C1_Witness ==
  /\ Finished("c1", "generate_text")
  /\ M = MaxModels /\ K = MaxKeys
  /\ call["c1"].requests = M * K

(***************************************************************************)
(* C2: a Success ends the call at once: the call has returned the trimmed  *)
(* content of that response, no cursor moved after the request was sent    *)
(* (the cursors still designate its model and key), and when it was the    *)
(* first request of the call both cursors are where the call found them.   *)
(***************************************************************************)
C2_SuccessEndsCall ==
  LET h == call["c1"]
  IN  (h.op = "generate_text" /\ h.last.result = "Success")
        => /\ Finished("c1", "generate_text")
           /\ ret["c1"].text = strip(h.last.content)
           /\ h.last.content = CONTENT_PADDED => ret["c1"].text = <<"h", "i">>
           /\ h.last.content = CONTENT_HELLO => ret["c1"].text = CONTENT_HELLO
           /\ CurrentModel = h.last.model
           /\ CurrentKey = h.last.api_key
           /\ h.requests = 1 => /\ current_model_index = h.start_model
                                /\ current_api_key_index = h.start_key

(* the first pair answered 200 with padded content *)
C2_Witness ==
  /\ Finished("c1", "generate_text")
  /\ call["c1"].requests = 1
  /\ call["c1"].last.result = "Success"
  /\ call["c1"].last.content = CONTENT_PADDED
  /\ ret["c1"].text = <<"h", "i">>

(***************************************************************************)
(* C3, as claimed: after a 401 the next request of the call goes to the    *)
(* same model with the next key.                                           *)
(***************************************************************************)
C3_Original ==
  LET h == call["c1"]
  IN  (h.op = "generate_text" /\ h.prev.result = "AuthError")
        => /\ h.last.model = h.prev.model
           /\ h.last.api_key = NextKey(h.prev.api_key)

(***************************************************************************)
(* C3, amended: after a 401 the next request of the call uses the next     *)
(* key; it goes to the same model when the 401 was not the K-th key        *)
(* attempt of the model's round and to the next model when it was.  When   *)
(* the request after a 401 on the same model succeeds, the call returns    *)
(* its text, the key cursor is at the key that succeeded and the model     *)
(* cursor still at the model of the 401.                                   *)
(***************************************************************************)
C3_NextKeyAfter401 ==
  LET h == call["c1"]
      same == h.prev.api_key_attempt + 1 < K
  IN  (h.op = "generate_text" /\ h.prev.result = "AuthError")
        => /\ h.last.api_key = NextKey(h.prev.api_key)
           /\ IF same
                THEN /\ h.last.model = h.prev.model
                     /\ h.last.model_attempt = h.prev.model_attempt
                     /\ h.last.api_key_attempt = h.prev.api_key_attempt + 1
                ELSE /\ h.last.model = NextModel(h.prev.model)
                     /\ h.last.model_attempt = h.prev.model_attempt + 1
                     /\ h.last.api_key_attempt = 0
           /\ (same /\ h.last.result = "Success")
                => /\ Finished("c1", "generate_text")
                   /\ ret["c1"].text = strip(h.last.content)
                   /\ CurrentKey = h.last.api_key
                   /\ CurrentKey = NextKey(h.prev.api_key)
                   /\ CurrentModel = h.prev.model

(* the example of the specification: 401 on (m1, k1), then "hello" on (m1, k2) *)
C3_Witness ==
  LET h == call["c1"]
  IN  /\ Finished("c1", "generate_text")
      /\ h.requests = 2
      /\ h.prev.result = "AuthError" /\ h.prev.model = ModelId(1) /\ h.prev.api_key = KeyId(1)
      /\ h.last.result = "Success" /\ h.last.model = ModelId(1) /\ h.last.api_key = KeyId(2)
      /\ ret["c1"].text = CONTENT_HELLO
      /\ current_api_key_index = 1 /\ current_model_index = 0

(***************************************************************************)
(* C4: while every request of a call is answered 401, the key cursor has   *)
(* advanced once per request (mod K), each model gets K requests, so the   *)
(* key cursor is back at its starting value whenever a model's round       *)
(* starts, and the model cursor has advanced once per finished round; the  *)
(* call ends after M*K requests with both cursors where they started.      *)
(***************************************************************************)
C4_All401 ==
  LET h == call["c1"]
      f == frame["c1"]
  IN  (h.op = "generate_text" /\ h.statuses \subseteq {401} /\ client.present)
        => /\ h.advances = h.requests
           /\ Running("c1", "generate_text")
                => /\ current_api_key_index = (h.start_key + f.api_key_attempt) % K
                   /\ current_model_index
                        = (h.start_model + f.model_attempt + (IF f.pc = "sleep" THEN 1 ELSE 0)) % M
                   /\ h.requests = f.model_attempt * K + f.api_key_attempt
                                     + (IF AdvancingKey(f) THEN 1 ELSE 0)
                   /\ f.api_key_attempt = 0 => current_api_key_index = h.start_key
                   /\ f.pc \in {"set_header", "post", "await"}
                        => f.api_key = CurrentKey /\ f.model = CurrentModel
                   /\ f.pc = "await" => f.auth = f.api_key
                   /\ f.pc \in {"load_model_index", "store_model", "sleep"}
                        => f.api_key_attempt = K
           /\ Finished("c1", "generate_text")
                => /\ h.requests = M * K
                   /\ current_api_key_index = h.start_key
                   /\ current_model_index = h.start_model

(* every one of the M*K requests of a finished call got a 401 *)
C4_Witness ==
  /\ Finished("c1", "generate_text")
  /\ call["c1"].statuses = {401}
  /\ M = MaxModels /\ K = MaxKeys
  /\ call["c1"].requests = M * K

(***************************************************************************)
(* C5: after a ProviderError (a status other than 200 and 401) the call    *)
(* sends no further request to that model: the key cursor stays, the model *)
(* cursor advances by one and the next request goes to the next model with *)
(* the same key.                                                           *)
(***************************************************************************)
C5_ProviderErrorLeavesModel ==
  LET h == call["c1"]
      f == frame["c1"]
  IN  h.op = "generate_text"
        => /\ ~h.last.refused
           /\ h.prev.result = "ProviderError"
                => /\ h.last.model = NextModel(h.prev.model)
                   /\ h.last.model # h.prev.model
                   /\ h.last.api_key = h.prev.api_key
                   /\ h.last.model_attempt = h.prev.model_attempt + 1
           /\ h.last.result = "ProviderError"
                => /\ CurrentKey = h.last.api_key
                   /\ IF f.pc \in {"load_model_index", "store_model"}
                        THEN /\ CurrentModel = h.last.model
                             /\ f.pc = "store_model" => f.tmp = current_model_index
                        ELSE CurrentModel = NextModel(h.last.model)

(* a 500 on one model, then a request to another model with the same key *)
C5_Witness ==
  LET h == call["c1"]
  IN  /\ h.op = "generate_text"
      /\ h.prev.result = "ProviderError" /\ h.prev.status = 500
      /\ h.last.model # h.prev.model
      /\ h.last.api_key = h.prev.api_key

(***************************************************************************)
(* C6: after a network-level error (the HTTP call raised) the call         *)
(* abandons the model: its next request does not go to the same model.     *)
(***************************************************************************)
C6_NetworkErrorAbandonsModel ==
  LET h == call["c1"]
  IN  (h.op = "generate_text" /\ h.prev.result = "NetworkError")
        => h.last.model # h.prev.model

(***************************************************************************)
(* C7: after a 200 whose body does not yield choices[0].message.content    *)
(* the model cursor advances, the key cursor does not, and the next        *)
(* request of the call does not go to the same model.                      *)
(***************************************************************************)
C7_ProtocolErrorAbandonsModel ==
  LET h == call["c1"]
  IN  (h.op = "generate_text" /\ h.prev.result = "ProtocolError")
        => /\ h.last.model # h.prev.model
           /\ h.last.api_key = h.prev.api_key

(***************************************************************************)
(* C8: a call whose every request was answered 500 sends one request per   *)
(* model and returns the template answer for its prompt: the generic       *)
(* sentence for a prompt that matches no keyword, the gap analysis report  *)
(* for the prompt 'Analyze gaps'.                                          *)
(***************************************************************************)
C8_All500Fallback ==
  LET h == call["c1"]
  IN  (Finished("c1", "generate_text") /\ h.statuses = {500})
        => /\ h.requests = M
           /\ h.prompt = PROMPT_HELLO => ret["c1"].text = GENERIC_RESPONSE
           /\ h.prompt = PROMPT_GAPS => ret["c1"].text = _analyze_gaps_template
           /\ ret["c1"].text # <<>>

(* every model of the largest configuration answered 500 to 'Hello robot' *)
C8_Witness ==
  /\ Finished("c1", "generate_text")
  /\ call["c1"].statuses = {500}
  /\ M = MaxModels /\ K = MaxKeys
  /\ call["c1"].prompt = PROMPT_HELLO
  /\ ret["c1"].text = GENERIC_RESPONSE

(***************************************************************************)
(* C9: the result tells a template answer from a model's answer.  The      *)
(* call returns the text and nothing else, so the text is all a caller has *)
(* to go by: a text that came from a model must differ from the template   *)
(* answer for the prompt.                                                  *)
(***************************************************************************)
C9_DegradedDistinguishable ==
  LET h == call["c1"]
  IN  (Finished("c1", "generate_text") /\ h.last.result = "Success")
        => ret["c1"].text # _fallback_response(h.prompt)

(***************************************************************************)
(* C10: whatever the contexts do and however their steps interleave, both  *)
(* cursors stay inside their lists.                                        *)
(***************************************************************************)
C10_CursorsInRange ==
  /\ 0 <= current_model_index /\ current_model_index < M
  /\ 0 <= current_api_key_index /\ current_api_key_index < K

(* two calls, one of them analyze_image, both about to wrap the key cursor *)
C10_Witness ==
  /\ K >= 2
  /\ frame["c1"].pc = "store_key" /\ frame["c1"].op = "generate_text"
  /\ frame["c2"].pc = "store_key" /\ frame["c2"].op = "analyze_image"
  /\ frame["c1"].tmp = K - 1 /\ frame["c2"].tmp = K - 1

(***************************************************************************)
(* C11: the read and the advance of a cursor exclude each other between    *)
(* concurrent generate_text calls: two calls are never both between the    *)
(* load of a cursor and the store of its advanced value, so the second     *)
(* store cannot overwrite the first with a value computed from the same    *)
(* load (no advance is lost).                                              *)
(***************************************************************************)
C11_MutualExclusion ==
  \A c, d \in Ctx :
    (c # d /\ frame[c].op = "generate_text" /\ frame[d].op = "generate_text")
      => /\ ~(frame[c].pc = "store_key" /\ frame[d].pc = "store_key")
         /\ ~(frame[c].pc = "store_model" /\ frame[d].pc = "store_model")

(***************************************************************************)
(* C12: the cursors persist across calls.  After a generate_text call that *)
(* returned a remote Success the cursors designate the pair that           *)
(* succeeded; the start of the next generate_text call leaves the cursors  *)
(* where they are, so that call starts from that pair; and the first       *)
(* request of a call goes to the pair the cursors designated when the call *)
(* started.                                                                *)
(***************************************************************************)
C12_CursorsPersist ==
  [][LET h == call["c1"]
         h2 == call'["c1"]
         succeeded == Finished("c1", "generate_text") /\ h.last.result = "Success"
         starts == frame["c1"].pc = "idle" /\ h2.op = "generate_text" /\ h2.requests = 0
                     /\ frame'["c1"].pc # "idle"
     IN  /\ succeeded => CurrentModel = h.last.model /\ CurrentKey = h.last.api_key
         /\ starts => /\ current_model_index' = current_model_index
                      /\ current_api_key_index' = current_api_key_index
                      /\ h2.start_model = current_model_index
                      /\ h2.start_key = current_api_key_index
         /\ (succeeded /\ starts)
              => /\ models[h2.start_model + 1] = h.last.model
                 /\ api_keys[h2.start_key + 1] = h.last.api_key
         /\ (h.op = "generate_text" /\ h.requests = 0 /\ h2.requests = 1)
              => /\ h2.last.model = models[h.start_model + 1]
                 /\ h2.last.api_key = api_keys[h.start_key + 1]]_vars

(* a call that found both cursors off their initial position, got a 401 on *)
(* the pair they designated and succeeded with the next key                *)
C12_Witness ==
  LET h == call["c1"]
  IN  /\ Finished("c1", "generate_text")
      /\ h.start_model = 1 /\ h.start_key = 1
      /\ h.requests = 2
      /\ h.prev.result = "AuthError"
      /\ h.prev.model = ModelId(2) /\ h.prev.api_key = KeyId(2)
      /\ h.last.result = "Success"
      /\ h.last.model = ModelId(2) /\ h.last.api_key = KeyId(1)
      /\ current_model_index = 1 /\ current_api_key_index = 0

(***************************************************************************)
(* C13: the cursors are decoupled.  A step of generate_text that advances  *)
(* the model cursor leaves the key cursor unchanged, and a step that       *)
(* advances the key cursor leaves the model cursor unchanged.              *)
(***************************************************************************)
C13_CursorsDecoupled ==
  [][LET f == frame["c1"]
         stepping == Running("c1", "generate_text") /\ frame'["c1"].pc # f.pc
     IN  /\ (stepping /\ (f.pc = "store_model" \/ current_model_index' # current_model_index))
              => current_api_key_index' = current_api_key_index
         /\ (stepping /\ (f.pc = "store_key" \/ current_api_key_index' # current_api_key_index))
              => current_model_index' = current_model_index]_vars

(* the call has moved on to its second model and the key cursor is still   *)
(* at the second key                                                       *)
C13_Witness ==
  LET f == frame["c1"]
  IN  /\ Running("c1", "generate_text")
      /\ f.pc = "prepare" /\ f.model_attempt = 1 /\ f.api_key_attempt = 0
      /\ current_api_key_index = 1
      /\ current_model_index # call["c1"].start_model

(***************************************************************************)
(* C14: within one generate_text call no (model, key) pair is requested    *)
(* twice: every request goes to a pair the call has not tried before, so   *)
(* the call has tried as many pairs as it has sent requests.               *)
(***************************************************************************)
C14_NoPairTwice ==
  LET h == call["c1"]
  IN  h.op = "generate_text"
        => /\ h.last.fresh
           /\ Cardinality(h.tried) = h.requests

(* a call that tried every pair of the largest configuration, with 401s,   *)
(* a raised request and a 500 among the outcomes                           *)
C14_Witness ==
  LET h == call["c1"]
  IN  /\ Finished("c1", "generate_text")
      /\ M = MaxModels /\ K = MaxKeys
      /\ Cardinality(h.tried) = M * K
      /\ {0, 401} \subseteq h.statuses
      /\ h.last.status = 500

(***************************************************************************)
(* C15, as claimed: the call sleeps between every two consecutive          *)
(* requests.                                                               *)
(***************************************************************************)
C15_Original ==
  LET h == call["c1"]
  IN  (h.op = "generate_text" /\ h.requests >= 2) => h.last.slept

(***************************************************************************)
(* C15, amended: the call sleeps between two consecutive requests exactly  *)
(* when the model cursor advanced between them (the second request belongs *)
(* to a later round of the model loop); between two requests of the same   *)
(* round, after a 401 or an exception, there is no delay.  The call also   *)
(* sleeps after the last model's round, before the fallback.               *)
(***************************************************************************)
C15_DelayBetweenModels ==
  LET h == call["c1"]
  IN  h.op = "generate_text"
        => /\ h.requests >= 2
                => (h.last.slept <=> h.last.model_attempt # h.prev.model_attempt)
           /\ (h.requests >= 2 /\ h.last.model_attempt = h.prev.model_attempt /\ K > 1)
                => /\ ~h.last.slept
                   /\ h.prev.result \in {"AuthError", "NetworkError", "ProtocolError"}
           /\ (Finished("c1", "generate_text") /\ h.last.result # "Success" /\ client.present)
                => h.slept

(* a 401, then the next key on the same model without a delay between *)
C15_Witness ==
  LET h == call["c1"]
  IN  /\ h.op = "generate_text"
      /\ h.prev.result = "AuthError"
      /\ h.last.model = h.prev.model
      /\ h.last.api_key = NextKey(h.prev.api_key)
      /\ ~h.last.slept

(***************************************************************************)
(* C16: when the backend has no client, generate_text ends at once: it     *)
(* sends no request, leaves both cursors where they were, and its outcome  *)
(* is an error raised to the caller, not a returned text.                  *)
(***************************************************************************)
C16_NoClientIsFatal ==
  LET h == call["c1"]
  IN  (Finished("c1", "generate_text") /\ ~client.present)
        => /\ h.requests = 0
           /\ current_model_index = h.start_model
           /\ current_api_key_index = h.start_key
           /\ ret["c1"].raised
           /\ ~ret["c1"].ok

(***************************************************************************)
(* C17: no failure of an attempt (401, another status, an exception of the *)
(* request, a 200 whose body does not parse) reaches the caller of         *)
(* generate_text: the call raises nothing, and after a failed attempt it   *)
(* either goes on or has returned a text, the fallback response to its     *)
(* prompt.                                                                 *)
(***************************************************************************)
C17_NoFailurePropagates ==
  LET h == call["c1"]
      failed == h.last.result \in {"AuthError", "ProviderError", "NetworkError", "ProtocolError"}
  IN  h.op = "generate_text"
        => /\ ~ret["c1"].raised
           /\ Finished("c1", "generate_text") => ret["c1"].ok
           /\ failed => \/ Running("c1", "generate_text") /\ ret["c1"] = NoRet
                        \/ /\ Finished("c1", "generate_text")
                           /\ ret["c1"] = TextRet("generate_text", _fallback_response(h.prompt))

(* a finished call whose four requests met an exception, an unparseable    *)
(* 200 body, a 401 and a 500, and which returned the generic response      *)
C17_Witness ==
  LET h == call["c1"]
  IN  /\ Finished("c1", "generate_text")
      /\ h.requests = 4
      /\ h.statuses = {0, 200, 401, 500}
      /\ h.last.result # "Success" /\ h.prev.result # "Success"
      /\ ret["c1"].ok /\ ~ret["c1"].raised
      /\ ret["c1"].text = GENERIC_RESPONSE

(***************************************************************************)
(* C18: a generate_text call whose max_tokens is not in 1..4000 fails      *)
(* fast: no request with such a max_tokens is sent.                        *)
(***************************************************************************)
C18_InvalidMaxTokensRejected ==
  LET h == call["c1"]
  IN  (h.op = "generate_text" /\ h.requests > 0) => h.last.max_tokens \in 1..4000

(***************************************************************************)
(* Vocabulary of the fallback claims: the rule list as the specification   *)
(* describes it, an ordered list of (keywords, response) pairs.  A rule    *)
(* matches a lowered prompt that contains one of its `any` keywords (when  *)
(* it has some) and all of its `all` keywords.                             *)
(***************************************************************************)
VexKeywords == {KW_vex, KW_en, KW_engineering_notebook}

Rules ==
  << [any |-> {KW_how_many_sections, KW_sections_do_i_have}, all |-> {},
      response |-> SECTIONS_COUNT_RESPONSE],
     [any |-> {KW_create_sections, KW_create_them, KW_make_sections}, all |-> {},
      response |-> CREATE_SECTIONS_RESPONSE],
     [any |-> VexKeywords, all |-> {KW_team}, response |-> VEX_TEAM_RESPONSE],
     [any |-> VexKeywords, all |-> {}, response |-> VEX_RESPONSE],
     [any |-> {}, all |-> {KW_draft, KW_section}, response |-> _draft_section_template],
     [any |-> {KW_rewrite, KW_improve}, all |-> {}, response |-> _rewrite_content_template],
     [any |-> {KW_question, KW_ask}, all |-> {}, response |-> _generate_questions_template],
     [any |-> {KW_analyze, KW_gap}, all |-> {}, response |-> _analyze_gaps_template] >>

Matches(rule, p) ==
  /\ rule.any # {} => \E kw \in rule.any : Contains(kw, p)
  /\ \A kw \in rule.all : Contains(kw, p)

Matching(prompt) == {i \in 1..Len(Rules) : Matches(Rules[i], lower(prompt))}

FirstMatch(prompt) ==
  IF Matching(prompt) = {} THEN GENERIC_RESPONSE
  ELSE Rules[SetMin(Matching(prompt))].response

(* the rule of "analyze" and "gap" is the last of the list *)
AnalyzeRule == Len(Rules)

(***************************************************************************)
(* C19, as claimed: for every prompt that contains "analyze", in any case  *)
(* and whatever else it contains, the fallback returns the gap-analysis    *)
(* report template.                                                        *)
(***************************************************************************)
C19_Original ==
  LET h == call["c1"]
  IN  (h.op = "_fallback_response" /\ Contains(KW_analyze, lower(h.prompt)))
        => ret["c1"].text = _analyze_gaps_template

(***************************************************************************)
(* C19, amended: for a prompt that contains "analyze", in any case, the    *)
(* fallback returns the gap-analysis report template exactly when the      *)
(* prompt matches none of the rules before the analyze rule; when it       *)
(* matches one, the answer is the response of the first of them.           *)
(***************************************************************************)
C19_AnalyzeUnlessEarlierRule ==
  LET h == call["c1"]
      earlier == Matching(h.prompt) \ {AnalyzeRule}
  IN  (h.op = "_fallback_response" /\ Contains(KW_analyze, lower(h.prompt)))
        => /\ AnalyzeRule \in Matching(h.prompt)
           /\ earlier = {} => ret["c1"].text = _analyze_gaps_template
           /\ earlier # {} => /\ ret["c1"].text = Rules[SetMin(earlier)].response
                              /\ ret["c1"].text # _analyze_gaps_template

(* "Analyze gap ": a capital A, no keyword of an earlier rule *)
C19_Witness ==
  LET h == call["c1"]
  IN  /\ h.op = "_fallback_response"
      /\ Contains(KW_analyze, lower(h.prompt))
      /\ ~Contains(KW_analyze, h.prompt)
      /\ Contains(KW_gap, h.prompt)
      /\ ret["c1"].text = _analyze_gaps_template

(***************************************************************************)
(* C20: the fallback is the first-match-wins evaluation of the rule list   *)
(* over the lowered prompt: it returns the response of the first matching  *)
(* rule, the generic response exactly when no rule matches, the same text  *)
(* for a prompt in any case and in any state of the backend, and a call    *)
(* changes neither the cursors nor the client.                             *)
(***************************************************************************)
C20_FirstMatchWins ==
  /\ [](LET h == call["c1"]
        IN  h.op = "_fallback_response"
              => /\ ret["c1"] = TextRet("_fallback_response", FirstMatch(h.prompt))
                 /\ ret["c1"].text = GENERIC_RESPONSE <=> Matching(h.prompt) = {}
                 /\ ret["c1"].text = _fallback_response(lower(h.prompt))
                 /\ current_model_index = h.start_model
                 /\ current_api_key_index = h.start_key)
  /\ [][call'["c1"].op = "_fallback_response"
          => UNCHANGED <<models, api_keys, current_model_index, current_api_key_index,
                         client, frame>>]_vars

(* "Rewrite ask ": the rewrite rule and the question rule both match and   *)
(* the earlier one wins                                                    *)
C20_Witness ==
  LET h == call["c1"]
  IN  /\ h.op = "_fallback_response"
      /\ Matching(h.prompt) = {6, 7}
      /\ ~Contains(KW_rewrite, h.prompt)
      /\ ret["c1"].text = _rewrite_content_template
      /\ current_model_index = 1 /\ ~client.present

(***************************************************************************)
(* C21: every text generate_text returns is non-empty, also when a model   *)
(* answers 200 with content that is empty or only whitespace.              *)
(***************************************************************************)
C21_NonEmptyResult ==
  Finished("c1", "generate_text") => ret["c1"].text # <<>>

(***************************************************************************)
(* C22: a request is sent with the credential its attempt read from the    *)
(* key cursor: the Authorization header the session carries when a context *)
(* posts is the key that context loaded, whatever the other context does   *)
(* meanwhile.                                                              *)
(***************************************************************************)
C22_RequestCarriesOwnKey ==
  [][\A c \in Ctx :
       (frame[c].pc = "post" /\ frame'[c].pc = "await") => client.auth = frame[c].api_key]_vars

(***************************************************************************)
(* C23: construction probes the keys in list order and stops at the first  *)
(* 200: that key's session is the client and its index the key cursor; a   *)
(* probe with another status or one that raises moves on to the next key,  *)
(* and after the last key the backend has no client.  So the client is     *)
(* available exactly when the probe made last returned 200, and that is    *)
(* the only probe that did.                                                *)
(***************************************************************************)
C23_ClientIffProbe200 ==
  /\ [](/\ ctor.pc = "probing"
             => /\ ctor.last # "200"
                /\ ctor.i = 0 <=> ctor.last = "none"
                /\ current_api_key_index = 0
                /\ frame["c1"].pc = "idle" /\ call["c1"].op = "none"
        /\ ctor.pc = "done"
             => /\ is_available <=> ctor.last = "200"
                /\ ~is_available => ctor.i = K - 1 /\ current_api_key_index = 0)
  /\ [][(ctor.pc = "probing" /\ ctor' # ctor)
          => IF ctor'.last = "200"
               THEN /\ ctor'.pc = "done" /\ ctor'.i = ctor.i
                    /\ is_available'
                    /\ client'.auth = api_keys[ctor.i + 1]
                    /\ current_api_key_index' = ctor.i
               ELSE /\ ctor'.last \in {"status", "raise"}
                    /\ current_api_key_index' = current_api_key_index
                    /\ IF ctor.i + 1 < K
                         THEN ctor'.pc = "probing" /\ ctor'.i = ctor.i + 1
                         ELSE ctor'.pc = "done" /\ ~is_available']_vars

(* just constructed: the first key's probe failed, the second key's probe  *)
(* returned 200                                                            *)
C23_Witness ==
  /\ ctor = [pc |-> "done", i |-> 1, last |-> "200"]
  /\ is_available
  /\ client.auth = KeyId(2)
  /\ current_api_key_index = 1
  /\ call["c1"].op = "none"

(* the call has returned after its last model's round *)
Exhausted ==
  /\ Finished("c1", "generate_text")
  /\ is_available
  /\ call["c1"].last.result # "Success"

(***************************************************************************)
(* C24: a call that runs out of attempts and returns the fallback response *)
(* has advanced the model cursor once per round, M times in all, so the    *)
(* model cursor is back where the call found it; the key cursor has moved  *)
(* on by the number of requests that ended in a 401 or an exception        *)
(* (mod K).                                                                *)
(***************************************************************************)
C24_CursorsAfterFallback ==
  /\ [](LET h == call["c1"]
            f == frame["c1"]
        IN  h.op = "generate_text"
              => /\ Running("c1", "generate_text")
                      => /\ current_model_index
                              = (h.start_model + f.model_attempt
                                   + (IF f.pc = "sleep" THEN 1 ELSE 0)) % M
                         /\ f.model_attempt < M
                 /\ (f.pc # "idle" /\ ~AdvancingKey(f))
                      => current_api_key_index = (h.start_key + h.advances) % K
                 /\ AdvancingKey(f)
                      => current_api_key_index = (h.start_key + h.advances - 1) % K
                 /\ Exhausted
                      => /\ ret["c1"].text = _fallback_response(h.prompt)
                         /\ current_model_index = h.start_model
                         /\ current_api_key_index = (h.start_key + h.advances) % K
                         /\ h.requests >= M)
  /\ [][/\ (Running("c1", "generate_text") /\ frame["c1"].pc = "store_model")
              => /\ frame'["c1"].pc = "sleep"
                 /\ current_model_index' = (current_model_index + 1) % M
        /\ (Running("c1", "generate_text") /\ Exhausted')
              => /\ frame["c1"].pc = "sleep"
                 /\ frame["c1"].model_attempt = M - 1
                 /\ current_model_index' = current_model_index]_vars

(* a request raised, the next key got a 500, the second model a 500 too:   *)
(* the key cursor has moved on once, the model cursor is back              *)
C24_Witness ==
  LET h == call["c1"]
  IN  /\ Exhausted
      /\ M = 2 /\ K = 2
      /\ h.start_model = 1 /\ h.start_key = 1
      /\ h.statuses = {0, 500}
      /\ h.advances = 1
      /\ h.requests = 3
      /\ current_model_index = 1 /\ current_api_key_index = 0

(***************************************************************************)
(* C25, as claimed: analyze_image sends at most K requests, leaves the     *)
(* model cursor alone, advances the key cursor by one for each 401 or      *)
(* exception, and returns at the first 200 or other status that is not     *)
(* 401.                                                                    *)
(***************************************************************************)
C25_Original ==
  LET h == call["c1"]
      f == frame["c1"]
  IN  h.op = "analyze_image"
        => /\ h.requests <= K
           /\ current_model_index = h.start_model
           /\ ~AdvancingKey(f)
                => current_api_key_index = (h.start_key + h.advances) % K
           /\ h.last.status \in {200, 500} => Finished("c1", "analyze_image")

(***************************************************************************)
(* C25, amended: analyze_image sends at most K requests, leaves the model  *)
(* cursor alone and advances the key cursor by one for each 401 and each   *)
(* exception, where a 200 whose body does not yield the content counts as  *)
(* an exception.  It returns the trimmed content at the first 200 whose    *)
(* body yields it, the failure text at the first status other than 200 and *)
(* 401, and "All API keys failed" after K requests that ended in a 401 or  *)
(* an exception.                                                           *)
(***************************************************************************)
C25_AnalyzeImage ==
  LET h == call["c1"]
      f == frame["c1"]
      done == Finished("c1", "analyze_image")
  IN  h.op = "analyze_image"
        => /\ h.requests <= K
           /\ current_model_index = h.start_model
           /\ h.last.model \in {NoModel, vision_model}
           /\ current_api_key_index
                = (h.start_key + h.advances - (IF AdvancingKey(f) THEN 1 ELSE 0)) % K
           /\ h.last.result = "Success"
                => done /\ ret["c1"].text = strip(h.last.content)
           /\ h.last.result = "ProviderError"
                => done /\ ret["c1"].text = IMAGE_FAILED_PREFIX \o ERROR_TEXT
           /\ h.last.result \in {"AuthError", "NetworkError", "ProtocolError"}
                => /\ h.advances = h.requests
                   /\ IF h.requests < K \/ AdvancingKey(f)
                        THEN Running("c1", "analyze_image")
                        ELSE done /\ ret["c1"].text = IMAGE_ALL_KEYS_FAILED
           /\ (done /\ is_available) => h.requests >= 1

(* a 200 whose body did not parse, then the padded content from the next   *)
(* key, returned trimmed                                                   *)
C25_Witness ==
  LET h == call["c1"]
  IN  /\ Finished("c1", "analyze_image")
      /\ h.requests = 2
      /\ h.prev.status = 200 /\ h.prev.result = "ProtocolError"
      /\ h.last.api_key = NextKey(h.prev.api_key)
      /\ h.last.content = CONTENT_PADDED
      /\ ret["c1"].text = <<"h", "i">>
      /\ current_model_index = h.start_model

(***************************************************************************)
(* C26: update_task_status moves a task from active_tasks to task_history  *)
(* exactly when the remote service reports a terminal status: the task     *)
(* leaves active_tasks only on a 200 with a terminal status, and a status  *)
(* check that did not reach the service leaves the task active; a task id  *)
(* is never in both and never twice in task_history.                       *)
(***************************************************************************)
C26_MovedIffTerminalReport ==
  /\ [](\A i, j \in 1..Len(task_history) :
          /\ task_history[i].task_id \notin DOMAIN active_tasks
          /\ task_history[i].task_id = task_history[j].task_id => i = j)
  /\ [][\A t \in TaskIds :
          LET update == reply'.op = "update_task_status" /\ reply'.task_id = t
                          /\ t \in DOMAIN active_tasks
              moved == t \in DOMAIN active_tasks /\ t \notin DOMAIN active_tasks'
          IN  /\ moved => /\ update
                          /\ reply'.code = 200
                          /\ reply'.value \in TerminalStatuses
                          /\ task_history'[Len(task_history')].task_id = t
              /\ (update /\ reply'.code = 200 /\ reply'.value \in TerminalStatuses) => moved
              /\ (update /\ reply'.code # 200) => t \in DOMAIN active_tasks']_vars

(***************************************************************************)
(* C27: once cancel_task has returned True for a tracked task, the status  *)
(* recorded for it stays "cancelled", in active_tasks and in task_history. *)
(***************************************************************************)
C27_CancelledStays ==
  /\ \A t \in DOMAIN active_tasks :
       active_tasks[t].cancelled_at => active_tasks[t].status = "cancelled"
  /\ \A i \in 1..Len(task_history) :
       task_history[i].cancelled_at => task_history[i].status = "cancelled"

(***************************************************************************)
(* C28: in in-memory mode a call of list_tasks returns exactly the stored  *)
(* tasks that have not expired and match the status filter, newest first   *)
(* and up to limit, also when expired tasks are stored at the time of the  *)
(* call, and leaves no expired task stored.  (A step that leaves the clock *)
(* alone, starts no handler and ends with an answer of list_tasks is a     *)
(* call of list_tasks during which the clock stood still; its arguments    *)
(* are in the answer.)                                                     *)
(***************************************************************************)
C28_ListIsUnexpiredMatching ==
  [][(/\ reply'.op = "list_tasks" /\ now' = now
      /\ \A t \in TaskIds : handler'[t].aliased => handler'[t] = handler[t]) =>
       /\ reply'.value =
            Truncate(SortNewestFirst(
                       SelectSeq(in_memory_tasks,
                                 LAMBDA r : /\ Unexpired(Store, r.task_id, now)
                                            /\ MatchesFilter(r, reply'.task_id))),
                     reply'.code)
       /\ \A i \in 1..Len(in_memory_tasks') :
            now < task_timeouts'[in_memory_tasks'[i].task_id]]_vars

(***************************************************************************)
(* C29: when DELETE /task/{task_id} has cancelled a task while POST        *)
(* /agentic-task was awaiting the agent for that task_id, the status       *)
(* stored for the task after the POST handler finished is "cancelled".     *)
(***************************************************************************)
C29_CancellationSurvivesFinish ==
  [][\A t \in TaskIds :
       (/\ handler[t].aliased /\ ~handler'[t].aliased
        /\ reply'.op = "process_agentic_task"
        /\ Stored(Store, t) /\ TaskOf(Store, t).cancelled_at
        /\ Stored([tasks |-> in_memory_tasks'], t))
       => TaskOf([tasks |-> in_memory_tasks'], t).status = "cancelled"]_vars

(***************************************************************************)
(* C30: GET /task/{task_id} and DELETE /task/{task_id} answer 404 when the *)
(* task does not exist or has expired; the in-memory task manager does not *)
(* fail, so neither answers 500.                                           *)
(***************************************************************************)
C30_MissingTaskIs404 ==
  reply.op \in {"get_task_status", "cancel_task"} => reply.code \in {200, 404}

====
